---------------------------- MODULE Spec2Model ----------------------------
(***************************************************************************)
(* The FPC voter of package fpc (src/unnamed/part_001): the submission     *)
(* queue, the registry of vote contexts, the Round driver with its         *)
(* enqueue / form / finalize / tick / query passes, and the client calls   *)
(* Vote and IntermediateOpinion with the two mutexes they take.            *)
(*                                                                         *)
(* Numbers.  Go's float64 values are modelled as exact rationals           *)
(* [n |-> numerator, d |-> denominator] in lowest terms; the value 0/0     *)
(* that IEEE arithmetic calls NaN is [n |-> 0, d |-> 0], and every         *)
(* comparison with it is false, as in Go.  Mana is counted in units of     *)
(* 0.001, so that toleranceTotalMana is the integer 1.                     *)
(***************************************************************************)
EXTENDS Integers, Sequences, FiniteSets, TLC

VARIABLES
    paras,      \* f.paras: the Parameters record, fixed at construction
    queue,      \* f.queue: the list of queued vote contexts, front first
    queueSet,   \* f.queueSet: the set of queued ids
    ctxs,       \* f.ctxs: the registry, a map id -> vote context
    lastRoundCompletedSuccessfully,  \* the flag of the same name
    queueMu,    \* f.queueMu: the thread holding it, or NoThread
    ctxsMuR,    \* f.ctxsMu: the set of threads holding it shared
    rpc,        \* the Round driver's position inside Round
    rand,       \* the rand argument of the Round call in progress
    roundErr,   \* what the last Round call returned (NotReturned while it runs)
    emitted,    \* Finalized / Failed events triggered by the latest Round call
    stats,      \* payload of the RoundExecuted event of the last Round step
    outage,     \* history: no Round has yet got a non-empty giver list
    submitted,  \* history: some Vote call has been accepted
    wins,       \* history: per id, the Vote calls accepted since the id's
                \* context was last removed from the registry
    cl,         \* the client threads: position, pending argument, return value
    qtrace      \* the query stage's locals (id lists, voteMap), when recorded

vars == <<paras, queue, queueSet, ctxs, lastRoundCompletedSuccessfully,
          queueMu, ctxsMuR, rpc, rand, roundErr, emitted, stats, outage,
          submitted, wins, cl, qtrace>>

-----------------------------------------------------------------------------
(* Bounds of the model *)

\* Round is not called while some active context already has this many rounds.
RoundsCap == 4

-----------------------------------------------------------------------------
(* Values *)

Like == "Like"
Dislike == "Dislike"
Unknown == "Unknown"
Opinions == {Like, Dislike, Unknown}

ConflictType == "ConflictType"
TimestampType == "TimestampType"

Nil == "nil"
ErrVoteAlreadyOngoing == "ErrVoteAlreadyOngoing"
ErrNoOpinionGiversAvailable == "ErrNoOpinionGiversAvailable"
ErrVotingNotFound == "ErrVotingNotFound"
ErrSupplier == "ErrSupplier"
ErrOwnWeight == "ErrOwnWeight"
NotReturned == "NotReturned"

NoThread == "NoThread"

\* |total mana| <= toleranceTotalMana selects uniform sampling (unit 0.001).
toleranceTotalMana == 1

-----------------------------------------------------------------------------
(* Rationals standing for float64 *)

RECURSIVE GCD(_, _)
GCD(a, b) == IF b = 0 THEN a ELSE GCD(b, a % b)

NaN == [n |-> 0, d |-> 0]
IsNaN(x) == x.d = 0

\* n/d in lowest terms, d > 0; a zero denominator gives NaN (Go: 0/0).
Rat(n, d) ==
    IF d = 0 THEN NaN
    ELSE LET g == GCD(IF n < 0 THEN -n ELSE n, d)
         IN  [n |-> n \div g, d |-> d \div g]

Zero == Rat(0, 1)
One == Rat(1, 1)

RAdd(x, y) == IF IsNaN(x) \/ IsNaN(y) THEN NaN
              ELSE Rat(x.n * y.d + y.n * x.d, x.d * y.d)
RSub(x, y) == IF IsNaN(x) \/ IsNaN(y) THEN NaN
              ELSE Rat(x.n * y.d - y.n * x.d, x.d * y.d)
RMul(x, y) == IF IsNaN(x) \/ IsNaN(y) THEN NaN
              ELSE Rat(x.n * y.n, x.d * y.d)
\* x >= y on float64: false as soon as one side is NaN
RGeq(x, y) == ~IsNaN(x) /\ ~IsNaN(y) /\ x.n * y.d >= y.n * x.d

-----------------------------------------------------------------------------
(* vote.Context *)

\* vote.NewContext(id, objectType, initOpn)
NewContext(id, objectType, initOpn) ==
    [ID |-> id, Type |-> objectType, Opinions |-> <<initOpn>>, Rounds |-> 0,
     ProportionLiked |-> Zero,
     Weights |-> [OwnWeight |-> 0, TotalWeights |-> 0]]

LastOpinion(c) == c.Opinions[Len(c.Opinions)]

AddOpinion(c, o) == [c EXCEPT !.Opinions = Append(@, o)]

IsNew(c) == c.Rounds = 0

HadFirstRound(c, coolingOffPeriod) == c.Rounds = coolingOffPeriod + 1

HadFixedRound(c, coolingOffPeriod, finalization, fixed) ==
    c.Rounds > coolingOffPeriod + finalization + fixed

\* The last k opinions of a context (all of them when it has fewer than k).
LastOpinions(c, k) ==
    LET len == Len(c.Opinions)
        from == IF len > k THEN len - k + 1 ELSE 1
    IN  SubSeq(c.Opinions, from, len)

IsFinalized(c, coolingOffPeriod, finalization) ==
    /\ c.Rounds - coolingOffPeriod >= finalization
    /\ \A i \in DOMAIN LastOpinions(c, finalization) :
          /\ LastOpinions(c, finalization)[i] = LastOpinion(c)
          /\ LastOpinions(c, finalization)[i] # Unknown

\* opinion.ConvertOpinionToFloat64: 1 for Like, 0 for Dislike, negative otherwise
ConvertOpinionToFloat64(o) ==
    IF o = Like THEN 1 ELSE IF o = Dislike THEN 0 ELSE -1

\* RandUniformThreshold(rand, lower, upper) = lower + rand * (upper - lower)
RandUniformThreshold(r, lower, upper) == RAdd(lower, RMul(r, RSub(upper, lower)))

-----------------------------------------------------------------------------
(* Maps (Go map[string]...) as functions on their key set *)

EmptyMap == [x \in {} |-> x]

Put(m, k, v) == [x \in DOMAIN m \cup {k} |-> IF x = k THEN v ELSE m[x]]

\* delete(f.ctxs, id) as if it removed nothing
Delete_Nothing(m, ks) == m

\* delete(f.ctxs, id), lines 195 and 200, for the ids of one finalize pass
Delete(m, ks) == [x \in DOMAIN m \ ks |-> m[x]]

\* The ids of the contexts held in a queue
QueueIds(q) == {q[i].ID : i \in DOMAIN q}

-----------------------------------------------------------------------------
(* Client threads: Vote and IntermediateOpinion *)

NoArg == [id |-> "-", typ |-> "-", opn |-> "-"]
NoRet == [opn |-> "-", err |-> "-"]
IdleClient == [pc |-> "idle", op |-> "-", arg |-> NoArg, ret |-> NoRet, raced |-> {}]

\* f.ctxsMu is free for an exclusive Lock: the exclusive sections of Round are
\* single steps here, so only shared holders are ever visible.
CtxsMuFree == ctxsMuR = {}

\* Vote as if it did not take f.queueMu
VoteLock_NoQueueMu(t) ==
    /\ cl[t].pc \in {"idle", "done"}
    /\ queueMu' = queueMu
    /\ ctxsMuR' = ctxsMuR \cup {t}
    /\ cl' = [cl EXCEPT ![t] = [IdleClient EXCEPT !.pc = "locked", !.op = "Vote"]]
    /\ UNCHANGED <<paras, queue, queueSet, ctxs, lastRoundCompletedSuccessfully,
                   rpc, rand, roundErr, emitted, stats, outage,
                   submitted, wins, qtrace>>

\* Vote, lines 78-81: f.queueMu.Lock(); f.ctxsMu.RLock()
VoteLock(t) ==
    /\ cl[t].pc \in {"idle", "done"}
    /\ queueMu = NoThread
    /\ queueMu' = t
    /\ ctxsMuR' = ctxsMuR \cup {t}
    /\ cl' = [cl EXCEPT ![t] = [IdleClient EXCEPT !.pc = "locked", !.op = "Vote"]]
    /\ UNCHANGED <<paras, queue, queueSet, ctxs, lastRoundCompletedSuccessfully,
                   rpc, rand, roundErr, emitted, stats, outage,
                   submitted, wins, qtrace>>

\* Vote as if it tested the queue-set only
alreadyOngoing_QueueOnly(id) == id \in queueSet

\* Vote, lines 82-87: the two membership tests
alreadyOngoing(id) == id \in queueSet \/ id \in DOMAIN ctxs

\* Vote, lines 82-87, with the deferred unlocks when it returns the error
VoteCheck(t, id, typ, opn) ==
    /\ cl[t].pc = "locked" /\ cl[t].op = "Vote"
    /\ IF alreadyOngoing(id)
       THEN /\ cl' = [cl EXCEPT ![t] =
                        [pc |-> "done", op |-> "Vote",
                         arg |-> [id |-> id, typ |-> "-", opn |-> "-"],
                         ret |-> [opn |-> "-", err |-> ErrVoteAlreadyOngoing],
                         raced |-> {}]]
            /\ queueMu' = (IF queueMu = t THEN NoThread ELSE queueMu)
            /\ ctxsMuR' = ctxsMuR \ {t}
       ELSE /\ cl' = [cl EXCEPT ![t] =
                        [pc |-> "push", op |-> "Vote",
                         arg |-> [id |-> id, typ |-> typ, opn |-> opn],
                         ret |-> NoRet, raced |-> {}]]
            /\ UNCHANGED <<queueMu, ctxsMuR>>
    /\ UNCHANGED <<paras, queue, queueSet, ctxs, lastRoundCompletedSuccessfully,
                   rpc, rand, roundErr, emitted, stats, outage,
                   submitted, wins, qtrace>>

\* Vote as if it pushed the new context to the front of the queue
VotePush_Front(t) ==
    /\ cl[t].pc = "push"
    /\ queue' = <<NewContext(cl[t].arg.id, cl[t].arg.typ, cl[t].arg.opn)>> \o queue
    /\ queueSet' = queueSet \cup {cl[t].arg.id}
    /\ cl' = [cl EXCEPT ![t] =
                 [pc |-> "done", op |-> "Vote",
                  arg |-> [id |-> cl[t].arg.id, typ |-> "-", opn |-> "-"],
                  ret |-> [opn |-> "-", err |-> Nil], raced |-> {}]]
    /\ queueMu' = (IF queueMu = t THEN NoThread ELSE queueMu)
    /\ ctxsMuR' = ctxsMuR \ {t}
    /\ submitted' = TRUE
    /\ wins' = [wins EXCEPT ![cl[t].arg.id] = @ + 1]
    /\ UNCHANGED <<paras, ctxs, lastRoundCompletedSuccessfully,
                   rpc, rand, roundErr, emitted, stats, outage, qtrace>>

\* Vote, lines 88-90, with the deferred unlocks
VotePush(t) ==
    /\ cl[t].pc = "push"
    /\ queue' = Append(queue, NewContext(cl[t].arg.id, cl[t].arg.typ, cl[t].arg.opn))
    /\ queueSet' = queueSet \cup {cl[t].arg.id}
    /\ cl' = [cl EXCEPT ![t] =
                 [pc |-> "done", op |-> "Vote",
                  arg |-> [id |-> cl[t].arg.id, typ |-> "-", opn |-> "-"],
                  ret |-> [opn |-> "-", err |-> Nil], raced |-> {}]]
    /\ queueMu' = (IF queueMu = t THEN NoThread ELSE queueMu)
    /\ ctxsMuR' = ctxsMuR \ {t}
    /\ submitted' = TRUE
    /\ wins' = [wins EXCEPT ![cl[t].arg.id] = @ + 1]
    /\ UNCHANGED <<paras, ctxs, lastRoundCompletedSuccessfully,
                   rpc, rand, roundErr, emitted, stats, outage, qtrace>>

\* IntermediateOpinion, line 96: f.ctxsMu.RLock()
IntermediateOpinionLock(t) ==
    /\ cl[t].pc \in {"idle", "done"}
    /\ ctxsMuR' = ctxsMuR \cup {t}
    /\ cl' = [cl EXCEPT ![t] =
                 [IdleClient EXCEPT !.pc = "locked", !.op = "IntermediateOpinion"]]
    /\ UNCHANGED <<paras, queue, queueSet, ctxs, lastRoundCompletedSuccessfully,
                   queueMu, rpc, rand, roundErr, emitted, stats, outage,
                   submitted, wins, qtrace>>

\* voteCtx.LastOpinion() as thread t reads it at line 102.  formOpinions appends
\* to Opinions holding f.ctxsMu only shared, so a reader that held the shared
\* lock meanwhile reads the slice while it is written: a data race, and the
\* read yields an arbitrary opinion.
readLastOpinion(t, id) ==
    IF id \in cl[t].raced THEN Opinions ELSE {LastOpinion(ctxs[id])}

\* IntermediateOpinion, lines 98-102, with the deferred unlock
IntermediateOpinion(t, id) ==
    /\ cl[t].pc = "locked" /\ cl[t].op = "IntermediateOpinion"
    /\ \E o \in IF id \in DOMAIN ctxs THEN readLastOpinion(t, id) ELSE {Unknown} :
          cl' = [cl EXCEPT ![t] =
                   [pc |-> "done", op |-> "IntermediateOpinion",
                    arg |-> [id |-> id, typ |-> "-", opn |-> "-"],
                    ret |-> IF id \in DOMAIN ctxs
                            THEN [opn |-> o, err |-> Nil]
                            ELSE [opn |-> Unknown, err |-> ErrVotingNotFound],
                    raced |-> {}]]
    /\ ctxsMuR' = ctxsMuR \ {t}
    /\ UNCHANGED <<paras, queue, queueSet, ctxs, lastRoundCompletedSuccessfully,
                   queueMu, rpc, rand, roundErr, emitted, stats, outage,
                   submitted, wins, qtrace>>

-----------------------------------------------------------------------------
(* Round: enqueue, formOpinions, finalizeOpinions, the tick *)

NoStats == [executed |-> FALSE]

\* enqueue, lines 158-163: the loop, taking the front element each time
RECURSIVE drain(_, _, _)
drain(q, m, s) ==
    IF q = <<>> THEN [queue |-> q, ctxs |-> m, queueSet |-> s]
    ELSE drain(Tail(q), Put(m, Head(q).ID, Head(q)), s \ {Head(q).ID})

\* Round as if line 117 did not test the flag
RoundEnqueue_AlwaysForms(r) ==
    /\ rpc = "idle"
    /\ \A id \in DOMAIN ctxs : ctxs[id].Rounds < RoundsCap
    /\ queueMu = NoThread
    /\ CtxsMuFree
    /\ queue' = drain(queue, ctxs, queueSet).queue
    /\ ctxs' = drain(queue, ctxs, queueSet).ctxs
    /\ queueSet' = drain(queue, ctxs, queueSet).queueSet
    /\ rand' = r
    /\ roundErr' = NotReturned
    /\ emitted' = {}
    /\ stats' = NoStats
    /\ rpc' = "formOpinions"
    /\ UNCHANGED <<paras, lastRoundCompletedSuccessfully, queueMu, ctxsMuR,
                   outage, submitted, wins, cl, qtrace>>

\* Round, lines 113-117: the call begins, f.enqueue() runs under both mutexes,
\* and the flag decides whether the formation and finalize passes follow.
RoundEnqueue(r) ==
    /\ rpc = "idle"
    /\ \A id \in DOMAIN ctxs : ctxs[id].Rounds < RoundsCap
    /\ queueMu = NoThread
    /\ CtxsMuFree
    /\ queue' = drain(queue, ctxs, queueSet).queue
    /\ ctxs' = drain(queue, ctxs, queueSet).ctxs
    /\ queueSet' = drain(queue, ctxs, queueSet).queueSet
    /\ rand' = r
    /\ roundErr' = NotReturned
    /\ emitted' = {}
    /\ stats' = NoStats
    /\ rpc' = IF lastRoundCompletedSuccessfully THEN "formOpinions" ELSE "tick"
    /\ UNCHANGED <<paras, lastRoundCompletedSuccessfully, queueMu, ctxsMuR,
                   outage, submitted, wins, cl, qtrace>>

\* setThreshold as if the first-round bounds overrode the fixed threshold
setThreshold_FirstOverridesFixed(c) ==
    IF HadFirstRound(c, paras.TotalRoundsCoolingOffPeriod)
    THEN <<paras.FirstRoundLowerBoundThreshold, paras.FirstRoundUpperBoundThreshold>>
    ELSE IF HadFixedRound(c, paras.TotalRoundsCoolingOffPeriod,
                          paras.TotalRoundsFinalization, paras.TotalRoundsFixedThreshold)
    THEN <<paras.EndingRoundsFixedThreshold, paras.EndingRoundsFixedThreshold>>
    ELSE <<paras.SubsequentRoundsLowerBoundThreshold,
           paras.SubsequentRoundsUpperBoundThreshold>>

\* setThreshold, lines 333-348
setThreshold(c) ==
    IF HadFixedRound(c, paras.TotalRoundsCoolingOffPeriod,
                     paras.TotalRoundsFinalization, paras.TotalRoundsFixedThreshold)
    THEN <<paras.EndingRoundsFixedThreshold, paras.EndingRoundsFixedThreshold>>
    ELSE IF HadFirstRound(c, paras.TotalRoundsCoolingOffPeriod)
    THEN <<paras.FirstRoundLowerBoundThreshold, paras.FirstRoundUpperBoundThreshold>>
    ELSE <<paras.SubsequentRoundsLowerBoundThreshold,
           paras.SubsequentRoundsUpperBoundThreshold>>

\* biasTowardsOwnOpinion as if it always returned the proportion liked
biasTowardsOwnOpinion_NoBias(c) == c.ProportionLiked

\* biasTowardsOwnOpinion as if the two shares of line 362 were exchanged
biasTowardsOwnOpinion_SharesExchanged(c) ==
    LET totalMana == c.Weights.TotalWeights
        ownMana == c.Weights.OwnWeight
        ownOpinion == ConvertOpinionToFloat64(LastOpinion(c))
    IN  IF ownMana = 0 \/ totalMana = 0 THEN c.ProportionLiked
        ELSE IF ownOpinion < 0 THEN c.ProportionLiked
        ELSE RAdd(RMul(Rat(ownMana, totalMana), c.ProportionLiked),
                  RMul(RSub(One, Rat(ownMana, totalMana)), Rat(ownOpinion, 1)))

\* biasTowardsOwnOpinion, lines 351-364
biasTowardsOwnOpinion(c) ==
    LET totalMana == c.Weights.TotalWeights
        ownMana == c.Weights.OwnWeight
        ownOpinion == ConvertOpinionToFloat64(LastOpinion(c))
    IN  IF ownMana = 0 \/ totalMana = 0 THEN c.ProportionLiked
        ELSE IF ownOpinion < 0 THEN c.ProportionLiked
        ELSE RAdd(RMul(Rat(ownMana, totalMana), Rat(ownOpinion, 1)),
                  RMul(RSub(One, Rat(ownMana, totalMana)), c.ProportionLiked))

\* formOpinions as if it formed an opinion for new contexts too
formOpinion_AlsoNew(c, r) ==
    IF RGeq(biasTowardsOwnOpinion(c),
            RandUniformThreshold(r, setThreshold(c)[1], setThreshold(c)[2]))
    THEN AddOpinion(c, Like)
    ELSE AddOpinion(c, Dislike)

\* formOpinions, lines 171-185: the loop body for one context
formOpinion(c, r) ==
    IF IsNew(c) THEN c
    ELSE IF RGeq(biasTowardsOwnOpinion(c),
                 RandUniformThreshold(r, setThreshold(c)[1], setThreshold(c)[2]))
    THEN AddOpinion(c, Like)
    ELSE AddOpinion(c, Dislike)

\* Thread t is inside IntermediateOpinion, holding f.ctxsMu shared
readsConcurrently(t) ==
    t \in ctxsMuR /\ cl[t].pc = "locked" /\ cl[t].op = "IntermediateOpinion"

\* formOpinions, lines 168-186; it takes f.ctxsMu shared (RLock), which the
\* readers inside IntermediateOpinion hold as well
FormOpinions ==
    /\ rpc = "formOpinions"
    /\ ctxs' = [id \in DOMAIN ctxs |-> formOpinion(ctxs[id], rand)]
    /\ cl' = [t \in DOMAIN cl |->
                IF readsConcurrently(t)
                THEN [cl[t] EXCEPT !.raced = @ \cup {id \in DOMAIN ctxs : ~IsNew(ctxs[id])}]
                ELSE cl[t]]
    /\ rpc' = "finalizeOpinions"
    /\ UNCHANGED <<paras, queue, queueSet, lastRoundCompletedSuccessfully,
                   queueMu, ctxsMuR, rand, roundErr, emitted, stats, outage,
                   submitted, wins, qtrace>>

\* finalizeOpinions as if line 193 looked at the rounds counter only
finalizedIds_RoundsOnly(m) ==
    {id \in DOMAIN m :
        m[id].Rounds - paras.TotalRoundsCoolingOffPeriod >= paras.TotalRoundsFinalization}

\* finalizeOpinions, line 193
finalizedIds(m) ==
    {id \in DOMAIN m : IsFinalized(m[id], paras.TotalRoundsCoolingOffPeriod,
                                   paras.TotalRoundsFinalization)}

\* finalizeOpinions as if line 198 compared with > instead of >=
failedIds_Above(m) ==
    {id \in DOMAIN m \ finalizedIds(m) :
        m[id].Rounds > paras.MaxRoundsPerVoteContext}

\* finalizeOpinions as if line 198 were reached for finalized contexts too
failedIds_AlsoFinalized(m) ==
    {id \in DOMAIN m : m[id].Rounds >= paras.MaxRoundsPerVoteContext}

\* finalizeOpinions, line 198: reached only when line 193 did not hold
failedIds(m) ==
    {id \in DOMAIN m \ finalizedIds(m) :
        m[id].Rounds >= paras.MaxRoundsPerVoteContext}

\* The event as if it carried the context's initial opinion
OpinionEvent_Initial(kind, id, c) ==
    [kind |-> kind, ID |-> id, Opinion |-> c.Opinions[1], Ctx |-> c]

\* vote.OpinionEvent{ID: id, Opinion: voteCtx.LastOpinion(), Ctx: *voteCtx}
OpinionEvent(kind, id, c) ==
    [kind |-> kind, ID |-> id, Opinion |-> LastOpinion(c), Ctx |-> c]

\* finalizeOpinions, lines 192-202: the loop, every handler returning, and the
\* deferred unlock
finalizePass ==
    /\ emitted' = {OpinionEvent("Finalized", id, ctxs[id]) : id \in finalizedIds(ctxs)}
                  \cup {OpinionEvent("Failed", id, ctxs[id]) : id \in failedIds(ctxs)}
    /\ ctxs' = Delete(ctxs, finalizedIds(ctxs) \cup failedIds(ctxs))
    /\ rpc' = "tick"
    /\ wins' = [id \in DOMAIN wins |->
                 IF id \in finalizedIds(ctxs) \cup failedIds(ctxs) THEN 0 ELSE wins[id]]
    /\ UNCHANGED <<paras, queue, queueSet, lastRoundCompletedSuccessfully,
                   queueMu, ctxsMuR, rand, roundErr, stats, outage, submitted, cl, qtrace>>

\* finalizeOpinions, lines 189-203; it takes f.ctxsMu exclusively
FinalizeOpinions ==
    /\ rpc = "finalizeOpinions"
    /\ CtxsMuFree
    /\ finalizePass

\* Round as if the tick were part of the formation branch of line 117
Tick_OnlyAfterFormation ==
    /\ rpc = "tick"
    /\ CtxsMuFree
    /\ ctxs' = [id \in DOMAIN ctxs |->
                 IF lastRoundCompletedSuccessfully
                 THEN [ctxs[id] EXCEPT !.Rounds = @ + 1]
                 ELSE ctxs[id]]
    /\ rpc' = "queryOpinions"
    /\ UNCHANGED <<paras, queue, queueSet, lastRoundCompletedSuccessfully,
                   queueMu, ctxsMuR, rand, roundErr, emitted, stats, outage,
                   submitted, wins, cl, qtrace>>

\* Round, lines 127-131: every context's Rounds++, under the exclusive lock
Tick ==
    /\ rpc = "tick"
    /\ CtxsMuFree
    /\ ctxs' = [id \in DOMAIN ctxs |-> [ctxs[id] EXCEPT !.Rounds = @ + 1]]
    /\ rpc' = "queryOpinions"
    /\ UNCHANGED <<paras, queue, queueSet, lastRoundCompletedSuccessfully,
                   queueMu, ctxsMuR, rand, roundErr, emitted, stats, outage,
                   submitted, wins, cl, qtrace>>

-----------------------------------------------------------------------------
(* ManaBasedSampling and UniformSampling *)

\* An opinion giver is [id, mana]; a list of givers is a sequence of them.
\* What f.opinionGiverFunc() returns is [givers, err], what
\* f.ownWeightRetrieverFunc() returns is [mana, err], and what a giver's Query
\* returns is [opinions, err].
RECURSIVE manaSum(_, _)
manaSum(opinionGivers, i) ==
    IF i = 0 THEN 0 ELSE manaSum(opinionGivers, i - 1) + opinionGivers[i].mana

\* ManaBasedSampling, lines 375-381: totals[i] is the mana of the first i givers
totals(opinionGivers) ==
    [i \in 1..Len(opinionGivers) |-> manaSum(opinionGivers, i)]

Abs(x) == IF x < 0 THEN -x ELSE x

Incr(m, k) == Put(m, k, (IF k \in DOMAIN m THEN m[k] ELSE 0) + 1)

\* UniformSampling, lines 405-412; draws[i] is the i-th rng.Intn(len(givers)).
\* It yields the map of selected givers and the number of draws made (the
\* value of the loop counter i when the loop ends).
RECURSIVE UniformSampling(_, _, _, _, _)
UniformSampling(opinionGivers, querySampleSize, draws, i, sel) ==
    IF i < querySampleSize
    THEN UniformSampling(opinionGivers, querySampleSize, draws, i + 1,
                         Incr(sel, opinionGivers[draws[i + 1] + 1].id))
    ELSE [sel |-> sel, drawn |-> i]

\* ManaBasedSampling as if line 394 compared with <= instead of <
firstAbove_AtOrAbove(tot, rnd) ==
    {idx \in DOMAIN tot : rnd <= tot[idx] /\ \A j \in 1..(idx - 1) : ~(rnd <= tot[j])}

\* ManaBasedSampling, lines 393-399: the first index whose prefix sum exceeds rnd
firstAbove(tot, rnd) ==
    {idx \in DOMAIN tot : rnd < tot[idx] /\ \A j \in 1..(idx - 1) : ~(rnd < tot[j])}

\* ManaBasedSampling as if the loop did not stop once querySampleSize distinct
\* givers are selected
RECURSIVE weightedSampling_NoEarlyStop(_, _, _, _, _, _)
weightedSampling_NoEarlyStop(opinionGivers, maxQuerySampleSize, querySampleSize, draws, i, sel) ==
    IF i < maxQuerySampleSize
    THEN weightedSampling_NoEarlyStop(opinionGivers, maxQuerySampleSize,
            querySampleSize, draws, i + 1,
            IF firstAbove(totals(opinionGivers), draws[i + 1]) = {} THEN sel
            ELSE Incr(sel, opinionGivers[CHOOSE idx \in
                         firstAbove(totals(opinionGivers), draws[i + 1]) : TRUE].id))
    ELSE [sel |-> sel, drawn |-> i]

\* ManaBasedSampling, lines 390-400; draws[i] is the integer part of the i-th
\* rng.Float64() * totalConsensusMana.  It yields the map of selected givers
\* and the number of draws made (the value of the loop counter i when the loop
\* ends).
RECURSIVE weightedSampling(_, _, _, _, _, _)
weightedSampling(opinionGivers, maxQuerySampleSize, querySampleSize, draws, i, sel) ==
    IF i < maxQuerySampleSize /\ Cardinality(DOMAIN sel) < querySampleSize
    THEN weightedSampling(opinionGivers, maxQuerySampleSize, querySampleSize, draws,
            i + 1,
            IF firstAbove(totals(opinionGivers), draws[i + 1]) = {} THEN sel
            ELSE Incr(sel, opinionGivers[CHOOSE idx \in
                         firstAbove(totals(opinionGivers), draws[i + 1]) : TRUE].id))
    ELSE [sel |-> sel, drawn |-> i]

\* ManaBasedSampling as if the uniform fallback reported the givers' mana
ManaBasedSampling_UniformReportsMana(opinionGivers, maxQuerySampleSize, querySampleSize, draws) ==
    LET totalConsensusMana == manaSum(opinionGivers, Len(opinionGivers))
        uniform == UniformSampling(opinionGivers, querySampleSize, draws, 0, EmptyMap)
        weighted == weightedSampling(opinionGivers, maxQuerySampleSize,
                                     querySampleSize, draws, 0, EmptyMap)
    IN  IF Abs(totalConsensusMana) <= toleranceTotalMana
        THEN [sel |-> uniform.sel, total |-> totalConsensusMana, drawn |-> uniform.drawn]
        ELSE [sel |-> weighted.sel, total |-> totalConsensusMana,
              drawn |-> weighted.drawn]

\* ManaBasedSampling, lines 374-402: the givers to query with their counts, the
\* total mana reported, and the number of draws made
ManaBasedSampling(opinionGivers, maxQuerySampleSize, querySampleSize, draws) ==
    LET totalConsensusMana == manaSum(opinionGivers, Len(opinionGivers))
        uniform == UniformSampling(opinionGivers, querySampleSize, draws, 0, EmptyMap)
        weighted == weightedSampling(opinionGivers, maxQuerySampleSize,
                                     querySampleSize, draws, 0, EmptyMap)
    IN  IF Abs(totalConsensusMana) <= toleranceTotalMana
        THEN [sel |-> uniform.sel, total |-> 0, drawn |-> uniform.drawn]
        ELSE [sel |-> weighted.sel, total |-> totalConsensusMana,
              drawn |-> weighted.drawn]

\* The values one draw of the generator can take for this list of givers
DrawValues(opinionGivers) ==
    LET m == manaSum(opinionGivers, Len(opinionGivers))
    IN  IF Abs(m) <= toleranceTotalMana THEN 0..(Len(opinionGivers) - 1)
        ELSE 0..(m - 1)

Max2(a, b) == IF a > b THEN a ELSE b

\* The sequences of draws the generator can deliver to one sampling
DrawSeqs(opinionGivers) ==
    [1..Max2(paras.MaxQuerySampleSize, paras.QuerySampleSize) -> DrawValues(opinionGivers)]

\* Every result ManaBasedSampling can return for this list of givers
Samples(opinionGivers) ==
    {ManaBasedSampling(opinionGivers, paras.MaxQuerySampleSize,
                       paras.QuerySampleSize, d) : d \in DrawSeqs(opinionGivers)}

-----------------------------------------------------------------------------
(* queryOpinions *)

QueryFailed == "QueryFailed"

\* voteContextIDs, lines 318-330
idsOfType(m, typ) == {id \in DOMAIN m : m[id].Type = typ}

\* The orders in which a range over a Go map can deliver the keys S
Orders(S) ==
    {o \in [1..Cardinality(S) -> S] : \A i, j \in DOMAIN o : i # j => o[i] # o[j]}

\* createVoteMapForConflicts, lines 415-426
createVoteMapForConflicts(conflictIDs, timestampIDs) ==
    [id \in {conflictIDs[i] : i \in DOMAIN conflictIDs}
            \cup {timestampIDs[i] : i \in DOMAIN timestampIDs} |-> <<>>]

Repeat(o, n) == [j \in 1..n |-> o]

IndexOf(ids, id) == CHOOSE i \in DOMAIN ids : ids[i] = id

InSeq(ids, id) == \E i \in DOMAIN ids : ids[i] = id

\* queryOpinions, lines 272 and 274: the opinion read for the i-th conflict id
\* (Go index i-1) is opinions[i-1]
conflictOpinion(opinions, conflictIDs, i) == opinions[i]

\* queryOpinions, lines 279 and 281: the opinion read for the i-th timestamp id
\* (Go index i-1) is opinions[i-1] as well
timestampOpinion(opinions, conflictIDs, i) == opinions[i]

\* queryOpinions, lines 269-282: one giver's opinions added to the vote map
addToVoteMap(voteMap, conflictIDs, timestampIDs, opinions, selectedCount) ==
    [id \in DOMAIN voteMap |->
        IF InSeq(conflictIDs, id)
        THEN voteMap[id] \o Repeat(conflictOpinion(opinions, conflictIDs,
                                       IndexOf(conflictIDs, id)), selectedCount)
        ELSE IF InSeq(timestampIDs, id)
        THEN voteMap[id] \o Repeat(timestampOpinion(opinions, conflictIDs,
                                       IndexOf(timestampIDs, id)), selectedCount)
        ELSE voteMap[id]]

\* queryOpinions, lines 260-264, 274, 281: the per-giver statistics
queriedOpinionsOf(giver, conflictIDs, timestampIDs, opinions, selectedCount) ==
    [OpinionGiverID |-> giver,
     Opinions |-> [id \in {conflictIDs[i] : i \in DOMAIN conflictIDs}
                          \cup {timestampIDs[i] : i \in DOMAIN timestampIDs} |->
                     IF InSeq(conflictIDs, id)
                     THEN conflictOpinion(opinions, conflictIDs, IndexOf(conflictIDs, id))
                     ELSE timestampOpinion(opinions, conflictIDs,
                                           IndexOf(timestampIDs, id))],
     TimesCounted |-> selectedCount]

\* queryOpinions, line 255: the response is used
validResponse(resp, conflictIDs, timestampIDs) ==
    resp.err = Nil /\ Len(resp.opinions) = Len(conflictIDs) + Len(timestampIDs)

\* queryOpinions, lines 245-286: the giver tasks take voteMapMu one after the
\* other, in the order `order`; acc holds voteMap and allQueriedOpinions
RECURSIVE fanOut(_, _, _, _, _, _)
fanOut(order, resp, sel, conflictIDs, timestampIDs, acc) ==
    IF order = <<>> THEN acc
    ELSE LET g == Head(order)
         IN  fanOut(Tail(order), resp, sel, conflictIDs, timestampIDs,
                IF validResponse(resp[g], conflictIDs, timestampIDs)
                THEN [voteMap |-> addToVoteMap(acc.voteMap, conflictIDs,
                                               timestampIDs, resp[g].opinions, sel[g]),
                      all |-> Append(acc.all,
                                 queriedOpinionsOf(g, conflictIDs, timestampIDs,
                                                   resp[g].opinions, sel[g]))]
                ELSE acc)

\* queryOpinions as if Unknown votes were counted as votes cast
votedCount_CountsUnknown(votes) == Len(votes)

\* queryOpinions, lines 294-303
votedCount(votes) == Cardinality({i \in DOMAIN votes : votes[i] # Unknown})
likedSum(votes) == Cardinality({i \in DOMAIN votes : votes[i] = Like})

\* queryOpinions, lines 305-312: the context after the aggregation of its votes
aggregateOne(c, votes, ownMana, totalMana) ==
    IF votedCount(votes) < paras.MinOpinionsReceived THEN c
    ELSE [c EXCEPT !.Weights = [OwnWeight |-> ownMana, TotalWeights |-> totalMana],
                   !.ProportionLiked = Rat(likedSum(votes), votedCount(votes))]

\* queryOpinions, lines 288-313; it takes f.ctxsMu shared (RLock)
aggregate(m, voteMap, ownMana, totalMana) ==
    [id \in DOMAIN m |->
        IF id \in DOMAIN voteMap
        THEN aggregateOne(m[id], voteMap[id], ownMana, totalMana)
        ELSE m[id]]

NoTrace == [recorded |-> FALSE]

\* The locals of a query stage that returned before any giver was asked: what
\* f.opinionGiverFunc() returned and, if it was called, what
\* f.ownWeightRetrieverFunc() returned
NotAsked == [mana |-> 0, err |-> "NotAsked"]
EarlyTrace(sup, own) == [recorded |-> FALSE, sup |-> sup, own |-> own]

\* queryOpinions, lines 236-315: the vote map is created, the selected givers
\* are asked, and the votes are aggregated
tallyGivers(m, conflictIDs, timestampIDs, sup, sample, own, resp, order) ==
    LET out == fanOut(order, resp, sample.sel, conflictIDs, timestampIDs,
                   [voteMap |-> createVoteMapForConflicts(conflictIDs, timestampIDs),
                    all |-> <<>>])
    IN  [ctxs |-> aggregate(m, out.voteMap, own.mana, sample.total + own.mana),
         all |-> out.all, err |-> Nil, queried |-> DOMAIN sample.sel,
         trace |-> [recorded |-> TRUE, conflictIDs |-> conflictIDs,
                    timestampIDs |-> timestampIDs, selected |-> sample.sel,
                    resp |-> resp, voteMap |-> out.voteMap,
                    ownMana |-> own.mana, totalMana |-> sample.total + own.mana,
                    givers |-> sup.givers, drawn |-> sample.drawn]]

\* queryOpinions as if an empty list of givers were no error
queryGivers_EmptyListIsNoError(m, conflictIDs, timestampIDs, sup, sample, own, resp, order) ==
    IF sup.err # Nil
    THEN [ctxs |-> m, all |-> <<>>, err |-> sup.err, queried |-> {},
          trace |-> EarlyTrace(sup, NotAsked)]
    ELSE IF Len(sup.givers) = 0
    THEN [ctxs |-> m, all |-> <<>>, err |-> Nil,
          queried |-> {}, trace |-> EarlyTrace(sup, NotAsked)]
    ELSE IF own.err # Nil
    THEN [ctxs |-> m, all |-> <<>>, err |-> own.err, queried |-> {},
          trace |-> EarlyTrace(sup, own)]
    ELSE tallyGivers(m, conflictIDs, timestampIDs, sup, sample, own, resp, order)

\* queryOpinions, lines 214-316, as a function of what the environment
\* delivers: the supplier's result sup, the sampling result sample, the
\* own-weight retriever's result own, each selected giver's response resp[g],
\* and the order in which the giver tasks finish.  It yields the registry, the
\* returned opinions and error, and the locals.
queryGivers(m, conflictIDs, timestampIDs, sup, sample, own, resp, order) ==
    IF sup.err # Nil
    THEN [ctxs |-> m, all |-> <<>>, err |-> sup.err, queried |-> {},
          trace |-> EarlyTrace(sup, NotAsked)]
    ELSE IF Len(sup.givers) = 0
    THEN [ctxs |-> m, all |-> <<>>, err |-> ErrNoOpinionGiversAvailable,
          queried |-> {}, trace |-> EarlyTrace(sup, NotAsked)]
    ELSE IF own.err # Nil
    THEN [ctxs |-> m, all |-> <<>>, err |-> own.err, queried |-> {},
          trace |-> EarlyTrace(sup, own)]
    ELSE tallyGivers(m, conflictIDs, timestampIDs, sup, sample, own, resp, order)

\* queryOpinions as if it had no early return for an engine with nothing to
\* vote on: the supplier is asked in every Round
queryOpinions_AlwaysAsks(m, conflictIDs, timestampIDs, sup, sample, own, resp, order) ==
    queryGivers(m, conflictIDs, timestampIDs, sup, sample, own, resp, order)

\* queryOpinions, lines 206-316; conflictIDs and timestampIDs are what
\* voteContextIDs returned, in the iteration order of f.ctxs
queryOpinions(m, conflictIDs, timestampIDs, sup, sample, own, resp, order) ==
    IF conflictIDs = <<>> /\ timestampIDs = <<>>
    THEN [ctxs |-> m, all |-> <<>>, err |-> Nil, queried |-> {}, trace |-> NoTrace]
    ELSE queryGivers(m, conflictIDs, timestampIDs, sup, sample, own, resp, order)

\* Round, lines 133-149: the query stage, the flag, the RoundExecuted event and
\* the return.  ActiveVoteContexts is the registry map itself, not a copy.
QueryOpinions(conflictIDs, timestampIDs, sup, sample, own, resp, order) ==
    /\ rpc = "queryOpinions"
    /\ LET q == queryOpinions(ctxs, conflictIDs, timestampIDs, sup, sample, own,
                              resp, order)
       IN  /\ ctxs' = q.ctxs
           /\ qtrace' = q.trace
           /\ roundErr' = q.err
           /\ lastRoundCompletedSuccessfully' =
                 (IF q.err = Nil THEN TRUE ELSE lastRoundCompletedSuccessfully)
           /\ stats' = IF q.err = Nil
                       THEN [executed |-> TRUE, RandUsed |-> rand,
                             ActiveVoteContexts |-> "f.ctxs",
                             QueriedOpinions |-> q.all]
                       ELSE NoStats
    /\ outage' = (outage /\ ~(DOMAIN ctxs # {} /\ sup.err = Nil /\ Len(sup.givers) > 0))
    /\ rpc' = "idle"
    /\ rand' = Zero
    /\ UNCHANGED <<paras, queue, queueSet, queueMu, ctxsMuR, emitted, submitted,
                   wins, cl>>

-----------------------------------------------------------------------------
(* The environment: what callers, suppliers and givers deliver *)

NoSample == [sel |-> EmptyMap, total |-> 0, drawn |-> 0]

\* What one giver can answer to a query for n ids: an error (or a timeout), a
\* response one opinion short, or n opinions
Responses(n) ==
    {[opinions |-> <<>>, err |-> QueryFailed]}
    \cup {[opinions |-> s, err |-> Nil] : s \in [1..(n - 1) -> {Like}]}
    \cup {[opinions |-> s, err |-> Nil] : s \in [1..n -> Opinions]}

\* The same, every id getting the same opinion
UniformResponses(n) ==
    {[opinions |-> <<>>, err |-> QueryFailed]}
    \cup {[opinions |-> [i \in 1..n |-> o], err |-> Nil] : o \in Opinions}

\* An environment E names the client threads, the items submitted with the
\* object types they are submitted as, the Parameters the engine may be built
\* with, the initial opinions submitted, the random numbers handed to Round,
\* and the results of the supplier, of the own-weight retriever and of the
\* givers.
ResponsesIn(E, n) == IF E.anyResponse THEN Responses(n) ELSE UniformResponses(n)

ParaMain ==
    [QuerySampleSize |-> 1, MaxQuerySampleSize |-> 1, MinOpinionsReceived |-> 1,
     TotalRoundsCoolingOffPeriod |-> 0, TotalRoundsFinalization |-> 2,
     TotalRoundsFixedThreshold |-> 0, MaxRoundsPerVoteContext |-> 3,
     FirstRoundLowerBoundThreshold |-> Rat(1, 2),
     FirstRoundUpperBoundThreshold |-> Rat(1, 2),
     SubsequentRoundsLowerBoundThreshold |-> Rat(1, 2),
     SubsequentRoundsUpperBoundThreshold |-> Rat(1, 1),
     EndingRoundsFixedThreshold |-> Rat(1, 2)]

GiversMain == <<[id |-> "g1", mana |-> 4]>>

EnvMain ==
    [clients |-> {"c1"},
     ids |-> {"a", "b"},
     types |-> [id \in {"a", "b"} |->
                  IF id = "a" THEN {ConflictType} ELSE {TimestampType}],
     paras |-> {ParaMain},
     opinions |-> Opinions,
     rands |-> {One},
     suppliers |-> {[givers |-> <<>>, err |-> ErrSupplier],
                    [givers |-> <<>>, err |-> Nil],
                    [givers |-> GiversMain, err |-> Nil]},
     owns |-> {[mana |-> 0, err |-> ErrOwnWeight], [mana |-> 0, err |-> Nil]},
     anyResponse |-> FALSE]

-----------------------------------------------------------------------------
(* The engine with its clients *)

InitIn(E) ==
    /\ paras \in E.paras
    /\ queue = <<>>
    /\ queueSet = {}
    /\ ctxs = EmptyMap
    /\ lastRoundCompletedSuccessfully = FALSE
    /\ queueMu = NoThread
    /\ ctxsMuR = {}
    /\ rpc = "idle"
    /\ rand = Zero
    /\ roundErr = NotReturned
    /\ emitted = {}
    /\ stats = NoStats
    /\ outage = TRUE
    /\ submitted = FALSE
    /\ wins = [id \in E.ids |-> 0]
    /\ cl = [t \in E.clients |-> IdleClient]
    /\ qtrace = NoTrace

\* The query stage when it ends before any giver is asked
QueryEndsEarly(E) ==
    \E conflictIDs \in Orders(idsOfType(ctxs, ConflictType)),
       timestampIDs \in Orders(idsOfType(ctxs, TimestampType)),
       sup \in E.suppliers, own \in E.owns :
        /\ \/ DOMAIN ctxs = {}
           \/ sup.err # Nil
           \/ sup.givers = <<>>
           \/ own.err # Nil
        /\ QueryOpinions(conflictIDs, timestampIDs, sup, NoSample, own,
                         EmptyMap, <<>>)

\* The query stage when givers are asked
QueryAsksGivers(E) ==
    \E conflictIDs \in Orders(idsOfType(ctxs, ConflictType)),
       timestampIDs \in Orders(idsOfType(ctxs, TimestampType)),
       sup \in E.suppliers, own \in E.owns :
        /\ DOMAIN ctxs # {}
        /\ sup.err = Nil
        /\ sup.givers # <<>>
        /\ own.err = Nil
        /\ \E sample \in Samples(sup.givers) :
              \E resp \in [DOMAIN sample.sel ->
                             ResponsesIn(E, Len(conflictIDs) + Len(timestampIDs))],
                 order \in Orders(DOMAIN sample.sel) :
                  QueryOpinions(conflictIDs, timestampIDs, sup, sample, own,
                                resp, order)

NextIn(E) ==
    \/ \E t \in E.clients : VoteLock(t)
    \/ \E t \in E.clients, id \in E.ids, opn \in E.opinions :
          \E typ \in E.types[id] : VoteCheck(t, id, typ, opn)
    \/ \E t \in E.clients : VotePush(t)
    \/ \E t \in E.clients : IntermediateOpinionLock(t)
    \/ \E t \in E.clients, id \in E.ids : IntermediateOpinion(t, id)
    \/ \E r \in E.rands : RoundEnqueue(r)
    \/ FormOpinions
    \/ FinalizeOpinions
    \/ Tick
    \/ QueryEndsEarly(E)
    \/ QueryAsksGivers(E)

Init == InitIn(EnvMain)
Next == NextIn(EnvMain)
Spec == Init /\ [][Next]_vars

-----------------------------------------------------------------------------
(* The engine with two client threads calling concurrently *)

EnvConc ==
    [clients |-> {"c1", "c2"},
     ids |-> {"a", "b"},
     types |-> [id \in {"a", "b"} |->
                  IF id = "a" THEN {ConflictType} ELSE {TimestampType}],
     paras |-> {ParaMain},
     opinions |-> {Like},
     rands |-> {One},
     suppliers |-> {[givers |-> <<>>, err |-> Nil],
                    [givers |-> GiversMain, err |-> Nil]},
     owns |-> {[mana |-> 0, err |-> Nil]},
     anyResponse |-> FALSE]

InitConc == InitIn(EnvConc)
NextConc == NextIn(EnvConc)
ConcSpec == InitConc /\ [][NextConc]_vars

-----------------------------------------------------------------------------
(* The engine with several items per query and givers answering freely *)

ParaQuery ==
    [QuerySampleSize |-> 1, MaxQuerySampleSize |-> 1, MinOpinionsReceived |-> 1,
     TotalRoundsCoolingOffPeriod |-> 0, TotalRoundsFinalization |-> 1,
     TotalRoundsFixedThreshold |-> 0, MaxRoundsPerVoteContext |-> 1,
     FirstRoundLowerBoundThreshold |-> Rat(1, 2),
     FirstRoundUpperBoundThreshold |-> Rat(1, 2),
     SubsequentRoundsLowerBoundThreshold |-> Rat(1, 2),
     SubsequentRoundsUpperBoundThreshold |-> Rat(1, 2),
     EndingRoundsFixedThreshold |-> Rat(1, 2)]

GiversQuery == <<[id |-> "g1", mana |-> 2]>>

EnvQuery ==
    [clients |-> {"c1"},
     ids |-> {"a", "b", "c"},
     types |-> [id \in {"a", "b", "c"} |->
                  IF id = "a" THEN {ConflictType}
                  ELSE IF id = "b" THEN {ConflictType, TimestampType}
                  ELSE {TimestampType}],
     paras |-> {ParaQuery},
     opinions |-> {Like},
     rands |-> {One},
     suppliers |-> {[givers |-> GiversQuery, err |-> Nil]},
     owns |-> {[mana |-> 0, err |-> Nil]},
     anyResponse |-> TRUE]

InitQuery == InitIn(EnvQuery)
NextQuery == NextIn(EnvQuery)
QuerySpec == InitQuery /\ [][NextQuery]_vars

-----------------------------------------------------------------------------
(* The engine when the supplier and the own-weight retriever never fail *)

EnvSteady ==
    [EnvMain EXCEPT !.suppliers = {[givers |-> GiversMain, err |-> Nil]},
                    !.owns = {[mana |-> 0, err |-> Nil]}]

InitSteady == InitIn(EnvSteady)
NextSteady == NextIn(EnvSteady)
SteadySpec == InitSteady /\ [][NextSteady]_vars

-----------------------------------------------------------------------------
(* The engine with two givers of equal mana, both asked in each Round *)

ParaTally ==
    [ParaQuery EXCEPT !.QuerySampleSize = 2, !.MaxQuerySampleSize = 2,
                      !.MinOpinionsReceived = 2]

GiversTally == <<[id |-> "g1", mana |-> 2], [id |-> "g2", mana |-> 2]>>

EnvTally ==
    [clients |-> {"c1"},
     ids |-> {"a", "b"},
     types |-> [id \in {"a", "b"} |->
                  IF id = "a" THEN {ConflictType} ELSE {ConflictType, TimestampType}],
     paras |-> {ParaTally},
     opinions |-> {Like},
     rands |-> {One},
     suppliers |-> {[givers |-> GiversTally, err |-> Nil]},
     owns |-> {[mana |-> 2, err |-> Nil]},
     anyResponse |-> TRUE]

InitTally == InitIn(EnvTally)
NextTally == NextIn(EnvTally)
TallySpec == InitTally /\ [][NextTally]_vars

-----------------------------------------------------------------------------
(* The engine configured with a cooling-off period of one round *)

ParaCool ==
    [ParaMain EXCEPT !.TotalRoundsCoolingOffPeriod = 1,
                     !.MaxRoundsPerVoteContext = 4]

EnvCool == [EnvSteady EXCEPT !.paras = {ParaCool}]

InitCool == InitIn(EnvCool)
NextCool == NextIn(EnvCool)
CoolSpec == InitCool /\ [][NextCool]_vars

-----------------------------------------------------------------------------
(* The engine configured to accept a tally without any opinion received *)

ParaNoMin == [ParaMain EXCEPT !.MinOpinionsReceived = 0]

EnvNoMin == [EnvSteady EXCEPT !.paras = {ParaNoMin}]

InitNoMin == InitIn(EnvNoMin)
NextNoMin == NextIn(EnvNoMin)
NoMinSpec == InitNoMin /\ [][NextNoMin]_vars

-----------------------------------------------------------------------------
(* The engine with each acquisition of a mutex as a step of its own *)

RoundThread == "round"

\* Vote as if it took f.ctxsMu before f.queueMu
voteLocks_CtxsMuFirst == <<"ctxsMu", "queueMu">>

\* Vote, lines 78-81: the mutexes in the order in which Vote takes them
voteLocks == <<"queueMu", "ctxsMu">>

\* The positions of the Round thread between the return of f.ctxsMu.Lock() in
\* finalizeOpinions (line 190) and the deferred unlock: the handlers of
\* Finalized and Failed run there (lines 194 and 199), and one of them may be
\* inside a call of Vote or IntermediateOpinion on this engine
InHandlers ==
    {"finalizeOpinions.locked", "handler.Vote.first", "handler.Vote.second",
     "handler.IntermediateOpinion"}

\* f.ctxsMu as if finalizeOpinions released it before the handlers run
writerWaiting_NotDuringHandlers ==
    rpc \in {"enqueue.ctxsMu", "finalizeOpinions", "tick"}

\* Round has called f.ctxsMu.Lock() (lines 156, 190, 127) and waits for the
\* shared holders to leave, or holds the mutex exclusively while the handlers
\* run; a sync.RWMutex admits no new shared holder in either case.
writerWaiting ==
    rpc \in {"enqueue.ctxsMu", "finalizeOpinions", "tick"} \cup InHandlers

\* The call mu.Lock() on f.queueMu, or mu.RLock() on f.ctxsMu, returns
canAcquire(mu) ==
    IF mu = "queueMu" THEN queueMu = NoThread ELSE ~writerWaiting

\* Thread t has taken mu: exclusively for f.queueMu, shared for f.ctxsMu
acquire(t, mu) ==
    IF mu = "queueMu"
    THEN queueMu' = t /\ UNCHANGED ctxsMuR
    ELSE ctxsMuR' = ctxsMuR \cup {t} /\ UNCHANGED queueMu

\* Vote, lines 78-79: the first mutex is taken
VoteLockFirst(t) ==
    /\ cl[t].pc \in {"idle", "done"}
    /\ canAcquire(voteLocks[1])
    /\ acquire(t, voteLocks[1])
    /\ cl' = [cl EXCEPT ![t] = [IdleClient EXCEPT !.pc = "Vote.second", !.op = "Vote"]]
    /\ UNCHANGED <<paras, queue, queueSet, ctxs, lastRoundCompletedSuccessfully,
                   rpc, rand, roundErr, emitted, stats, outage,
                   submitted, wins, qtrace>>

\* Vote, lines 80-81: the second mutex is taken
VoteLockSecond(t) ==
    /\ cl[t].pc = "Vote.second"
    /\ canAcquire(voteLocks[2])
    /\ acquire(t, voteLocks[2])
    /\ cl' = [cl EXCEPT ![t] = [IdleClient EXCEPT !.pc = "locked", !.op = "Vote"]]
    /\ UNCHANGED <<paras, queue, queueSet, ctxs, lastRoundCompletedSuccessfully,
                   rpc, rand, roundErr, emitted, stats, outage,
                   submitted, wins, qtrace>>

\* IntermediateOpinion, line 96: f.ctxsMu.RLock() returns
IntermediateOpinionRLock(t) ==
    /\ canAcquire("ctxsMu")
    /\ IntermediateOpinionLock(t)

\* Round, line 113, and enqueue, lines 154-156: the call begins, f.queueMu is
\* taken and f.ctxsMu.Lock() is called
RoundLockQueue(r) ==
    /\ rpc = "idle"
    /\ \A id \in DOMAIN ctxs : ctxs[id].Rounds < RoundsCap
    /\ canAcquire("queueMu")
    /\ queueMu' = RoundThread
    /\ rand' = r
    /\ roundErr' = NotReturned
    /\ emitted' = {}
    /\ stats' = NoStats
    /\ rpc' = "enqueue.ctxsMu"
    /\ UNCHANGED <<paras, queue, queueSet, ctxs, lastRoundCompletedSuccessfully,
                   ctxsMuR, outage, submitted, wins, cl, qtrace>>

\* enqueue, lines 156-163, and Round, line 117: f.ctxsMu.Lock() returns, the
\* queue is drained, both mutexes are released
EnqueueLocked ==
    /\ rpc = "enqueue.ctxsMu"
    /\ CtxsMuFree
    /\ queue' = drain(queue, ctxs, queueSet).queue
    /\ ctxs' = drain(queue, ctxs, queueSet).ctxs
    /\ queueSet' = drain(queue, ctxs, queueSet).queueSet
    /\ queueMu' = NoThread
    /\ rpc' = IF lastRoundCompletedSuccessfully THEN "formOpinions" ELSE "tick"
    /\ UNCHANGED <<paras, lastRoundCompletedSuccessfully, ctxsMuR, rand, roundErr,
                   emitted, stats, outage, submitted, wins, cl, qtrace>>

EnvLock == [EnvConc EXCEPT !.suppliers = {[givers |-> GiversMain, err |-> Nil]}]

InitLock == InitIn(EnvLock)

NextLock ==
    \/ \E t \in EnvLock.clients : VoteLockFirst(t)
    \/ \E t \in EnvLock.clients : VoteLockSecond(t)
    \/ \E t \in EnvLock.clients, id \in EnvLock.ids, opn \in EnvLock.opinions :
          \E typ \in EnvLock.types[id] : VoteCheck(t, id, typ, opn)
    \/ \E t \in EnvLock.clients : VotePush(t)
    \/ \E t \in EnvLock.clients : IntermediateOpinionRLock(t)
    \/ \E t \in EnvLock.clients, id \in EnvLock.ids : IntermediateOpinion(t, id)
    \/ \E r \in EnvLock.rands : RoundLockQueue(r)
    \/ EnqueueLocked
    \/ FormOpinions
    \/ FinalizeOpinions
    \/ Tick
    \/ QueryEndsEarly(EnvLock)
    \/ QueryAsksGivers(EnvLock)

LockSpec == InitLock /\ [][NextLock]_vars

-----------------------------------------------------------------------------
(* The engine with three different threshold rules and an own weight *)

\* First-round threshold 0, subsequent thresholds between 1/2 and 1, fixed
\* threshold 1/2 from the third round on
ParaPhases ==
    [ParaMain EXCEPT !.MaxRoundsPerVoteContext = 4,
                     !.FirstRoundLowerBoundThreshold = Zero,
                     !.FirstRoundUpperBoundThreshold = Zero,
                     !.SubsequentRoundsLowerBoundThreshold = Rat(1, 2),
                     !.SubsequentRoundsUpperBoundThreshold = One,
                     !.EndingRoundsFixedThreshold = Rat(1, 2)]

\* The same with no finalization window: the fixed threshold applies from the
\* first round on
ParaFixedAtOnce == [ParaPhases EXCEPT !.TotalRoundsFinalization = 0]

EnvPhases ==
    [clients |-> {"c1"},
     ids |-> {"a"},
     types |-> [id \in {"a"} |-> {ConflictType}],
     paras |-> {ParaPhases, ParaFixedAtOnce},
     opinions |-> {Like, Dislike, Unknown},
     rands |-> {Zero, One},
     suppliers |-> {[givers |-> GiversMain, err |-> Nil]},
     owns |-> {[mana |-> 0, err |-> Nil], [mana |-> 4, err |-> Nil]},
     anyResponse |-> FALSE]

InitPhases == InitIn(EnvPhases)
NextPhases == NextIn(EnvPhases)
PhasesSpec == InitPhases /\ [][NextPhases]_vars

-----------------------------------------------------------------------------
(* The engine sampling from three givers with mana and from two without *)

\* Up to three draws for two distinct givers
ParaSample == [ParaQuery EXCEPT !.QuerySampleSize = 2, !.MaxQuerySampleSize = 3]

\* A single draw allowed for two distinct givers
ParaOneDraw == [ParaQuery EXCEPT !.QuerySampleSize = 2, !.MaxQuerySampleSize = 1]

\* Total mana 0.003: weighted sampling
GiversWeighted ==
    <<[id |-> "g1", mana |-> 1], [id |-> "g2", mana |-> 1], [id |-> "g3", mana |-> 1]>>

\* Total mana 0.001, not above toleranceTotalMana: uniform sampling
GiversAlmostNoMana == <<[id |-> "g1", mana |-> 0], [id |-> "g2", mana |-> 1]>>

EnvSample ==
    [clients |-> {"c1"},
     ids |-> {"a"},
     types |-> [id \in {"a"} |-> {ConflictType}],
     paras |-> {ParaSample, ParaOneDraw},
     opinions |-> {Like},
     rands |-> {One},
     suppliers |-> {[givers |-> GiversWeighted, err |-> Nil],
                    [givers |-> GiversAlmostNoMana, err |-> Nil]},
     owns |-> {[mana |-> 0, err |-> Nil]},
     anyResponse |-> FALSE]

InitSample == InitIn(EnvSample)
NextSample == NextIn(EnvSample)
SampleSpec == InitSample /\ [][NextSample]_vars

-----------------------------------------------------------------------------
(* The engine with the handlers of Finalized and Failed as steps of their own *)

\* finalizeOpinions, line 190: f.ctxsMu.Lock() returns
FinalizeLock ==
    /\ rpc = "finalizeOpinions"
    /\ CtxsMuFree
    /\ rpc' = "finalizeOpinions.locked"
    /\ UNCHANGED <<paras, queue, queueSet, ctxs, lastRoundCompletedSuccessfully,
                   queueMu, ctxsMuR, rand, roundErr, emitted, stats, outage,
                   submitted, wins, cl, qtrace>>

\* finalizeOpinions, lines 192-203, when no handler calls the engine
FinalizeLocked ==
    /\ rpc = "finalizeOpinions.locked"
    /\ finalizePass

\* finalizeOpinions, lines 194 and 199: the event of context id is triggered
\* and its handler, on the Round thread, calls Vote(id, ...) or
\* IntermediateOpinion(id) on this engine: f.queueMu.Lock() (line 78) or
\* f.ctxsMu.RLock() (line 96) is called
HandlerCalls(id, call) ==
    /\ rpc = "finalizeOpinions.locked"
    /\ id \in finalizedIds(ctxs) \cup failedIds(ctxs)
    /\ emitted' = {OpinionEvent(IF id \in finalizedIds(ctxs) THEN "Finalized" ELSE "Failed",
                                id, ctxs[id])}
    /\ rpc' = IF call = "Vote" THEN "handler.Vote.first" ELSE "handler.IntermediateOpinion"
    /\ UNCHANGED <<paras, queue, queueSet, ctxs, lastRoundCompletedSuccessfully,
                   queueMu, ctxsMuR, rand, roundErr, stats, outage,
                   submitted, wins, cl, qtrace>>

\* The call made by the handler goes on: Vote takes f.queueMu (line 78), then
\* f.ctxsMu shared (line 80), finds the id active (line 85) and returns the
\* error; IntermediateOpinion takes f.ctxsMu shared (line 96) and returns
HandlerProceeds ==
    /\ \/ /\ rpc = "handler.Vote.first"
          /\ canAcquire("queueMu")
          /\ queueMu' = RoundThread
          /\ rpc' = "handler.Vote.second"
       \/ /\ rpc = "handler.Vote.second"
          /\ canAcquire("ctxsMu")
          /\ queueMu' = NoThread
          /\ rpc' = "finalizeOpinions.locked"
       \/ /\ rpc = "handler.IntermediateOpinion"
          /\ canAcquire("ctxsMu")
          /\ queueMu' = queueMu
          /\ rpc' = "finalizeOpinions.locked"
    /\ UNCHANGED <<paras, queue, queueSet, ctxs, lastRoundCompletedSuccessfully,
                   ctxsMuR, rand, roundErr, emitted, stats, outage,
                   submitted, wins, cl, qtrace>>

EnvHandler == [EnvLock EXCEPT !.clients = {"c1"}]

InitHandler == InitIn(EnvHandler)

NextHandler ==
    \/ \E t \in EnvHandler.clients : VoteLockFirst(t)
    \/ \E t \in EnvHandler.clients : VoteLockSecond(t)
    \/ \E t \in EnvHandler.clients, id \in EnvHandler.ids, opn \in EnvHandler.opinions :
          \E typ \in EnvHandler.types[id] : VoteCheck(t, id, typ, opn)
    \/ \E t \in EnvHandler.clients : VotePush(t)
    \/ \E t \in EnvHandler.clients : IntermediateOpinionRLock(t)
    \/ \E t \in EnvHandler.clients, id \in EnvHandler.ids : IntermediateOpinion(t, id)
    \/ \E r \in EnvHandler.rands : RoundLockQueue(r)
    \/ EnqueueLocked
    \/ FormOpinions
    \/ FinalizeLock
    \/ FinalizeLocked
    \/ \E id \in EnvHandler.ids, call \in {"Vote", "IntermediateOpinion"} :
          HandlerCalls(id, call)
    \/ HandlerProceeds
    \/ Tick
    \/ QueryEndsEarly(EnvHandler)
    \/ QueryAsksGivers(EnvHandler)

HandlerSpec == InitHandler /\ [][NextHandler]_vars

-----------------------------------------------------------------------------
(* The engine with own mana, asking givers of whom some or all have no mana *)

\* Thresholds between 1/4 and 1 in every phase; one opinion is enough
ParaFallback ==
    [ParaMain EXCEPT !.FirstRoundLowerBoundThreshold = Rat(1, 2),
                     !.FirstRoundUpperBoundThreshold = Rat(1, 1),
                     !.SubsequentRoundsLowerBoundThreshold = Rat(1, 4),
                     !.SubsequentRoundsUpperBoundThreshold = Rat(1, 1)]

\* Total mana 0.002: weighted sampling over a list that begins with a giver
\* without mana and has another one between two givers with mana
GiversSomeWithoutMana ==
    <<[id |-> "g1", mana |-> 0], [id |-> "g2", mana |-> 1],
      [id |-> "g3", mana |-> 0], [id |-> "g4", mana |-> 1]>>

EnvFallback ==
    [clients |-> {"c1"},
     ids |-> {"a"},
     types |-> [id \in {"a"} |-> {ConflictType}],
     paras |-> {ParaFallback},
     opinions |-> Opinions,
     rands |-> {Zero, One},
     suppliers |-> {[givers |-> GiversSomeWithoutMana, err |-> Nil],
                    [givers |-> GiversAlmostNoMana, err |-> Nil]},
     owns |-> {[mana |-> 0, err |-> Nil], [mana |-> 4, err |-> Nil]},
     anyResponse |-> FALSE]

InitFallback == InitIn(EnvFallback)
NextFallback == NextIn(EnvFallback)
FallbackSpec == InitFallback /\ [][NextFallback]_vars
-----------------------------------------------------------------------------
(* Properties *)

\* C1: in every reachable state, under any interleaving of concurrent Vote
\* calls with Round, the queue-set equals the set of ids of the contexts in
\* the queue, no id occurs twice in the queue, no id is both queued and
\* active, and every registry key holds the context of that id.
C1_QueuedXorActive ==
    /\ queueSet = QueueIds(queue)
    /\ \A i, j \in DOMAIN queue : i # j => queue[i].ID # queue[j].ID
    /\ queueSet \cap DOMAIN ctxs = {}
    /\ \A id \in DOMAIN ctxs : ctxs[id].ID = id

\* One id queued by an accepted Vote and another active, a second Vote holding
\* the mutexes, and a Round between two of its passes
C1_Witness ==
    /\ queueSet # {}
    /\ DOMAIN ctxs # {}
    /\ rpc # "idle"
    /\ \E t1, t2 \in DOMAIN cl :
          /\ cl[t1].pc = "done" /\ cl[t1].op = "Vote" /\ cl[t1].ret.err = Nil
          /\ cl[t2].pc = "locked" /\ cl[t2].op = "Vote"

\* C2: after a Round whose query stage returned an error the flag
\* lastRoundCompletedSuccessfully is false, also when an earlier Round had
\* succeeded.
C2_FlagFalseAfterFailedQuery ==
    (rpc = "idle" /\ roundErr \notin {Nil, NotReturned})
        => ~lastRoundCompletedSuccessfully

\* C3: while the supplier has returned an empty list or an error in every
\* Round so far, a context whose rounds counter has reached
\* MaxRoundsPerVoteContext is failed and removed by the next Round, so that no
\* Round returns with an active context ticked beyond MaxRoundsPerVoteContext.
C3_OutageFailsStuckContexts ==
    (outage /\ rpc = "idle")
        => \A id \in DOMAIN ctxs : ctxs[id].Rounds <= paras.MaxRoundsPerVoteContext

\* C5: a Vote for an id that is queued or active returns ErrVoteAlreadyOngoing
\* and leaves the queue, the queue-set and the registry unchanged; a Vote for
\* an id that is neither returns nil, appends one new context with
\* Opinions = <<initOpn>> and Rounds = 0 to the back of the queue, adds the id to
\* the queue-set and leaves the registry unchanged.
C5_VoteEffect ==
    [][\A t \in DOMAIN cl :
        (cl[t].op = "Vote" /\ cl[t].pc \in {"locked", "push"} /\ cl'[t].pc = "done")
        => IF cl'[t].arg.id \in queueSet \/ cl'[t].arg.id \in DOMAIN ctxs
           THEN /\ cl'[t].ret.err = ErrVoteAlreadyOngoing
                /\ queue' = queue /\ queueSet' = queueSet /\ ctxs' = ctxs
           ELSE /\ cl'[t].ret.err = Nil
                /\ Len(queue') = Len(queue) + 1
                /\ SubSeq(queue', 1, Len(queue)) = queue
                /\ queue'[Len(queue')].ID = cl[t].arg.id
                /\ queue'[Len(queue')].Type = cl[t].arg.typ
                /\ queue'[Len(queue')].Opinions = <<cl[t].arg.opn>>
                /\ queue'[Len(queue')].Rounds = 0
                /\ queueSet' = queueSet \cup {cl[t].arg.id}
                /\ ctxs' = ctxs]_vars

\* A Vote has been refused for an active id while another id is queued
C5_Witness ==
    \E t \in DOMAIN cl :
        /\ cl[t].pc = "done" /\ cl[t].op = "Vote"
        /\ cl[t].ret.err = ErrVoteAlreadyOngoing
        /\ cl[t].arg.id \in DOMAIN ctxs
        /\ queue # <<>>

\* C6: of the Vote calls made concurrently for one absent id, possibly while a
\* Round runs, exactly one is accepted as long as the context it created is
\* queued or active: no two calls are past the membership test for the same id
\* at once, and the number of accepted calls for an id is 1 while its context
\* is queued or active and 0 otherwise.
C6_ExactlyOneVoteWins ==
    /\ \A id \in DOMAIN wins :
          wins[id] = IF id \in QueueIds(queue) \/ id \in DOMAIN ctxs THEN 1 ELSE 0
    /\ \A t1, t2 \in DOMAIN cl :
          (t1 # t2 /\ cl[t1].pc = "push" /\ cl[t2].pc = "push")
              => cl[t1].arg.id # cl[t2].arg.id
    /\ \A t \in DOMAIN cl :
          cl[t].pc = "push" => wins[cl[t].arg.id] = 0

\* Two threads have voted for the same id while a Round ran: one was accepted,
\* the other refused, and the winner's context is still there
C6_Witness ==
    \E t1, t2 \in DOMAIN cl :
        /\ t1 # t2
        /\ cl[t1].pc = "done" /\ cl[t1].op = "Vote" /\ cl[t1].ret.err = Nil
        /\ cl[t2].pc = "done" /\ cl[t2].op = "Vote"
        /\ cl[t2].ret.err = ErrVoteAlreadyOngoing
        /\ cl[t1].arg.id = cl[t2].arg.id
        /\ wins[cl[t1].arg.id] = 1
        /\ rpc # "idle"

\* C7: IntermediateOpinion(id) returns the last element of the Opinions of the
\* registry context with that id and no error; for an id that is not a
\* registry key it returns Unknown with ErrVotingNotFound; it changes no
\* engine state.
C7_IntermediateOpinionResult ==
    [][\A t \in DOMAIN cl :
        (cl[t].op = "IntermediateOpinion" /\ cl[t].pc = "locked"
            /\ cl'[t].pc = "done")
        => /\ cl'[t].arg.id \in DOMAIN ctxs
                => cl'[t].ret = [opn |-> LastOpinion(ctxs[cl'[t].arg.id]),
                                 err |-> Nil]
           /\ cl'[t].arg.id \notin DOMAIN ctxs
                => cl'[t].ret = [opn |-> Unknown, err |-> ErrVotingNotFound]
           /\ UNCHANGED <<queue, queueSet, ctxs, lastRoundCompletedSuccessfully>>]_vars

\* C4: for a giver response of the required length, the opinion recorded in
\* the tally and in the per-giver stats for the k-th conflict id is
\* response[k], and the one recorded for the k-th timestamp id is
\* response[len(conflictIDs) + k].
C4_ResponseReadInConcatenationOrder ==
    (qtrace.recorded /\ stats.executed) =>
        \A i \in DOMAIN stats.QueriedOpinions :
            LET q == stats.QueriedOpinions[i]
                opinions == qtrace.resp[q.OpinionGiverID].opinions
            IN  /\ \A k \in DOMAIN qtrace.conflictIDs :
                      /\ q.Opinions[qtrace.conflictIDs[k]] = opinions[k]
                      /\ \E j \in DOMAIN qtrace.voteMap[qtrace.conflictIDs[k]] :
                            qtrace.voteMap[qtrace.conflictIDs[k]][j] = opinions[k]
                /\ \A k \in DOMAIN qtrace.timestampIDs :
                      /\ q.Opinions[qtrace.timestampIDs[k]]
                            = opinions[Len(qtrace.conflictIDs) + k]
                      /\ \E j \in DOMAIN qtrace.voteMap[qtrace.timestampIDs[k]] :
                            qtrace.voteMap[qtrace.timestampIDs[k]][j]
                                = opinions[Len(qtrace.conflictIDs) + k]

\* C8 as stated: with no submission ever made, Round returns no error and
\* emits no RoundExecuted event.
C8_NoRoundExecutedWithoutSubmissions ==
    (rpc = "idle" /\ ~submitted /\ roundErr # NotReturned)
        => (roundErr = Nil /\ ~stats.executed)

\* C8, amended: with no submission ever made, Round returns no error, asks no
\* supplier and no giver, and does emit a RoundExecuted event, whose queried
\* opinions are empty; it also raises lastRoundCompletedSuccessfully.
C8_EmptyRoundIsExecuted ==
    (rpc = "idle" /\ ~submitted /\ roundErr # NotReturned)
        => /\ roundErr = Nil
           /\ stats.executed
           /\ stats.QueriedOpinions = <<>>
           /\ lastRoundCompletedSuccessfully
           /\ ~qtrace.recorded
           /\ queue = <<>> /\ DOMAIN ctxs = {}

\* A Round has returned in an engine that never got a submission
C8_Witness ==
    rpc = "idle" /\ ~submitted /\ roundErr = Nil /\ stats.executed

\* C9: a context for which Finalized is emitted has rounds - cooldown >=
\* TotalRoundsFinalization, its last TotalRoundsFinalization opinions are
\* identical, and the emitted opinion is the last of them, which is Like or
\* Dislike.
C9_FinalizedIsFinalized ==
    \A e \in emitted :
        e.kind = "Finalized" =>
            LET c == e.Ctx
                l == paras.TotalRoundsFinalization
            IN  /\ c.ID = e.ID
                /\ c.Rounds - paras.TotalRoundsCoolingOffPeriod >= l
                /\ Len(c.Opinions) >= l
                /\ \A i, j \in (Len(c.Opinions) - l + 1)..Len(c.Opinions) :
                      c.Opinions[i] = c.Opinions[j]
                /\ e.Opinion = c.Opinions[Len(c.Opinions)]
                /\ e.Opinion \in {Like, Dislike}

\* Finalized is emitted for a context submitted with the opinion Unknown
C9_Witness ==
    \E e \in emitted : e.kind = "Finalized" /\ e.Ctx.Opinions[1] = Unknown

\* C10 as stated: the opinion emitted with Finalized equals each of the
\* context's most recent TotalRoundsFinalization + 1 opinions, none of which
\* is Unknown.
C10_LastFinalizationPlusOne ==
    \A e \in emitted :
        e.kind = "Finalized" =>
            /\ Len(e.Ctx.Opinions) >= paras.TotalRoundsFinalization + 1
            /\ \A k \in 0..paras.TotalRoundsFinalization :
                  /\ e.Ctx.Opinions[Len(e.Ctx.Opinions) - k] = e.Opinion
                  /\ e.Ctx.Opinions[Len(e.Ctx.Opinions) - k] # Unknown

\* C10, amended: the opinion emitted with Finalized equals each of the
\* context's most recent TotalRoundsFinalization opinions, none of which is
\* Unknown; the opinion before them may differ.
C10_LastFinalization ==
    \A e \in emitted :
        e.kind = "Finalized" =>
            \A k \in 0..(paras.TotalRoundsFinalization - 1) :
                /\ Len(e.Ctx.Opinions) - k >= 1
                /\ e.Ctx.Opinions[Len(e.Ctx.Opinions) - k] = e.Opinion
                /\ e.Ctx.Opinions[Len(e.Ctx.Opinions) - k] # Unknown

\* Finalized is emitted for a context whose opinion before the last
\* TotalRoundsFinalization ones differs from the emitted opinion
C10_Witness ==
    \E e \in emitted :
        /\ e.kind = "Finalized"
        /\ Len(e.Ctx.Opinions) > paras.TotalRoundsFinalization
        /\ e.Ctx.Opinions[Len(e.Ctx.Opinions) - paras.TotalRoundsFinalization]
              # e.Opinion

\* C11: a context leaves the registry only in a finalize pass, which emits
\* exactly one event for it, carrying the context as it was: Finalized if it
\* satisfies IsFinalized (also when its rounds have reached
\* MaxRoundsPerVoteContext), Failed otherwise; events are emitted for nothing
\* else, contexts enter the registry only in the enqueue pass that opens a
\* Round, and the contexts for which the Round emitted an event are absent
\* when it returns.
C11_OneTerminalEvent ==
    [][/\ \A id \in DOMAIN ctxs \ DOMAIN ctxs' :
             /\ rpc = "finalizeOpinions"
             /\ Cardinality({e \in emitted' : e.ID = id}) = 1
             /\ \A e \in emitted' :
                   e.ID = id =>
                      /\ e.Ctx = ctxs[id]
                      /\ e.kind \in {"Finalized", "Failed"}
                      /\ e.kind = "Finalized"
                            <=> IsFinalized(ctxs[id], paras.TotalRoundsCoolingOffPeriod,
                                            paras.TotalRoundsFinalization)
                      /\ e.kind = "Failed"
                            => ctxs[id].Rounds >= paras.MaxRoundsPerVoteContext
       /\ rpc = "finalizeOpinions"
             => \A e \in emitted' : e.ID \in DOMAIN ctxs \ DOMAIN ctxs'
       /\ rpc \notin {"finalizeOpinions", "idle"} => emitted' = emitted
       /\ DOMAIN ctxs' \ DOMAIN ctxs # {} => rpc = "idle"
       /\ (rpc # "idle" /\ rpc' = "idle")
             => \A e \in emitted' : e.ID \notin DOMAIN ctxs']_vars

\* A Round has returned after emitting Finalized for a context whose rounds
\* had reached MaxRoundsPerVoteContext, and Failed for another context
C11_Witness ==
    /\ rpc = "idle"
    /\ \E e \in emitted :
          e.kind = "Finalized" /\ e.Ctx.Rounds >= paras.MaxRoundsPerVoteContext
    /\ \E e \in emitted : e.kind = "Failed"

\* C12: in an engine whose every Round succeeds in querying, a context that
\* does not finalize is failed by the first finalize pass that sees its rounds
\* at MaxRoundsPerVoteContext: every Failed event carries a context with
\* exactly MaxRoundsPerVoteContext rounds, one opinion formed per round since
\* its promotion, and its last opinion; that context does not satisfy the
\* finalization conditions, no Finalized is emitted for it, and no context
\* stays active beyond a finalize pass with MaxRoundsPerVoteContext rounds.
C12_FailedExactlyAtMax ==
    /\ \A e \in emitted :
          e.kind = "Failed" =>
             /\ e.Ctx.Rounds = paras.MaxRoundsPerVoteContext
             /\ Len(e.Ctx.Opinions) = e.Ctx.Rounds + 1
             /\ e.Opinion = e.Ctx.Opinions[Len(e.Ctx.Opinions)]
             /\ \E i \in (Len(e.Ctx.Opinions) - paras.TotalRoundsFinalization + 1)
                             ..Len(e.Ctx.Opinions) :
                   e.Ctx.Opinions[i] # e.Opinion
             /\ \A f \in emitted : f.ID = e.ID => f = e
    /\ \A id \in DOMAIN ctxs : ctxs[id].Rounds <= paras.MaxRoundsPerVoteContext
    /\ rpc = "tick"
          => \A id \in DOMAIN ctxs : ctxs[id].Rounds < paras.MaxRoundsPerVoteContext

\* A Round has returned after failing a context
C12_Witness ==
    /\ rpc = "idle"
    /\ roundErr = Nil
    /\ \E e \in emitted :
          e.kind = "Failed" /\ e.Ctx.Rounds = paras.MaxRoundsPerVoteContext

\* C13: every Round call ticks each registry context exactly once, whether or
\* not the formation and finalize passes ran and whatever the call returns: the
\* tick step adds 1 to the rounds of every registry context and removes none,
\* no other step (of Round, Vote or IntermediateOpinion) changes the rounds of
\* a context that stays in the registry, queued contexts keep rounds 0, and a
\* Round passes through the tick exactly once between its call and its return.
C13_RoundsTickOncePerRound ==
    [][/\ \A id \in DOMAIN ctxs \cap DOMAIN ctxs' :
             ctxs'[id].Rounds = ctxs[id].Rounds
                                   + (IF rpc = "tick" /\ rpc' # rpc THEN 1 ELSE 0)
       /\ rpc = "tick" => DOMAIN ctxs' = DOMAIN ctxs
       /\ \A i \in DOMAIN queue' : queue'[i].Rounds = 0
       /\ rpc' # rpc =>
             <<rpc, rpc'>> \in {<<"idle", "formOpinions">>, <<"idle", "tick">>,
                                <<"formOpinions", "finalizeOpinions">>,
                                <<"finalizeOpinions", "tick">>,
                                <<"tick", "queryOpinions">>,
                                <<"queryOpinions", "idle">>}]_vars

\* A Round that skipped the formation pass has returned an error, and a
\* context has been ticked by two Rounds
C13_Witness ==
    /\ rpc = "idle"
    /\ roundErr \notin {Nil, NotReturned}
    /\ ~lastRoundCompletedSuccessfully
    /\ \E id \in DOMAIN ctxs : ctxs[id].Rounds >= 2

\* C14: when the supplier returns an error or an empty list, or the
\* own-weight retriever returns an error, Round returns that error
\* (ErrNoOpinionGiversAvailable for the empty list), no giver is queried, no
\* context changes, the flag is left as it was and no RoundExecuted event is
\* emitted; and Round returns an error in no other case.
C14_QueryStageError ==
    [][(rpc = "queryOpinions" /\ rpc' = "idle") =>
          /\ (qtrace' # NoTrace /\ ~qtrace'.recorded) =>
                /\ roundErr' = IF qtrace'.sup.err # Nil THEN qtrace'.sup.err
                               ELSE IF qtrace'.sup.givers = <<>>
                               THEN ErrNoOpinionGiversAvailable
                               ELSE qtrace'.own.err
                /\ roundErr' # Nil
                /\ ctxs' = ctxs
                /\ lastRoundCompletedSuccessfully' = lastRoundCompletedSuccessfully
                /\ ~stats'.executed
          /\ roundErr' # Nil => (qtrace' # NoTrace /\ ~qtrace'.recorded)]_vars

\* A Round has returned ErrNoOpinionGiversAvailable with active contexts, after
\* an earlier Round had raised the flag
C14_Witness ==
    /\ rpc = "idle"
    /\ roundErr = ErrNoOpinionGiversAvailable
    /\ lastRoundCompletedSuccessfully
    /\ DOMAIN ctxs # {}

\* C15 as stated: a Round call that returns a non-nil error has removed no
\* context from the registry during that call, so it has emitted neither
\* Finalized nor Failed.
C15_FailedRoundRemovesNothing ==
    (rpc = "idle" /\ roundErr \notin {Nil, NotReturned}) => emitted = {}

\* C15, amended: a Round call that returns a non-nil error removes no context
\* and appends no opinion in its enqueue pass, its tick and its query stage;
\* its formation and finalize passes run exactly when
\* lastRoundCompletedSuccessfully was set at the call, whatever the call
\* returns later, so only a failing Round in an engine whose flag is not set
\* is sure to have emitted nothing.
C15_FailedRoundAfterTheTick ==
    [][/\ (rpc = "queryOpinions" /\ rpc' = "idle" /\ roundErr' # Nil)
             => (ctxs' = ctxs /\ emitted' = emitted)
       /\ (rpc = "tick" /\ rpc' # rpc)
             => /\ DOMAIN ctxs' = DOMAIN ctxs
                /\ \A id \in DOMAIN ctxs : ctxs'[id].Opinions = ctxs[id].Opinions
       /\ (rpc = "idle" /\ rpc' # rpc)
             => /\ DOMAIN ctxs \subseteq DOMAIN ctxs'
                /\ \A id \in DOMAIN ctxs : ctxs'[id] = ctxs[id]
                /\ rpc' = IF lastRoundCompletedSuccessfully THEN "formOpinions"
                          ELSE "tick"
       /\ (rpc' = "idle" /\ roundErr' \notin {Nil, NotReturned}
             /\ ~lastRoundCompletedSuccessfully')
             => emitted' = {}]_vars

\* A Round has returned an error after its finalize pass removed a context
C15_Witness ==
    /\ rpc = "idle"
    /\ roundErr \notin {Nil, NotReturned}
    /\ \E e \in emitted : e.ID \notin DOMAIN ctxs

\* C16: in the aggregation of a successful query, each context with a tally
\* is left exactly as it was if votedCount (tally size minus the Unknown
\* votes) is below MinOpinionsReceived; otherwise its weights become (ownMana,
\* sampled total mana + ownMana) and its proportionLiked becomes likedSum /
\* votedCount, nothing else of it changes, and what happens to one id does not
\* depend on the tally of another.
C16_Aggregation ==
    [][(rpc = "queryOpinions" /\ rpc' = "idle" /\ qtrace'.recorded) =>
          /\ DOMAIN ctxs' = DOMAIN ctxs
          /\ \A id \in DOMAIN ctxs :
                LET votes == qtrace'.voteMap[id]
                    voted == Cardinality({i \in DOMAIN votes : votes[i] # Unknown})
                    liked == Cardinality({i \in DOMAIN votes : votes[i] = Like})
                IN  IF voted < paras.MinOpinionsReceived
                    THEN ctxs'[id] = ctxs[id]
                    ELSE /\ ctxs'[id].Weights
                               = [OwnWeight |-> qtrace'.ownMana,
                                  TotalWeights |-> qtrace'.totalMana]
                         /\ voted > 0 =>
                               /\ ctxs'[id].ProportionLiked.d > 0
                               /\ ctxs'[id].ProportionLiked.n * voted
                                     = liked * ctxs'[id].ProportionLiked.d
                         /\ voted = 0 => ctxs'[id].ProportionLiked.d = 0
                         /\ [ctxs'[id] EXCEPT !.Weights = ctxs[id].Weights,
                                              !.ProportionLiked =
                                                  ctxs[id].ProportionLiked]
                               = ctxs[id]]_vars

\* A query has returned in which one context had too few votes and was left
\* alone while another got a proportion strictly between 0 and 1
C16_Witness ==
    /\ rpc = "idle"
    /\ qtrace.recorded
    /\ \E id1, id2 \in DOMAIN ctxs :
          /\ \E i \in DOMAIN qtrace.voteMap[id1] : qtrace.voteMap[id1][i] = Unknown
          /\ \E i \in DOMAIN qtrace.voteMap[id1] : qtrace.voteMap[id1][i] = Like
          /\ ctxs[id1].Weights.TotalWeights = 0
          /\ ctxs[id1].ProportionLiked = Zero
          /\ ctxs[id2].ProportionLiked = Rat(1, 2)
          /\ ctxs[id2].Weights.TotalWeights > ctxs[id2].Weights.OwnWeight

\* C17: whenever an opinion is appended to a context by the formation pass of
\* a Round, the query stage of the immediately preceding Round has written the
\* proportionLiked it is formed from: that query did not fail, the context had
\* a tally in it, and the tally held at least MinOpinionsReceived votes other
\* than Unknown.
C17_FormedFromPreviousQuery ==
    [][\A id \in DOMAIN ctxs \cap DOMAIN ctxs' :
          Len(ctxs'[id].Opinions) > Len(ctxs[id].Opinions) =>
             /\ qtrace.recorded
             /\ id \in DOMAIN qtrace.voteMap
             /\ Cardinality({i \in DOMAIN qtrace.voteMap[id] :
                                qtrace.voteMap[id][i] # Unknown})
                   >= paras.MinOpinionsReceived]_vars

C19_ResubmissionAfterFinalized ==
    [][/\ \A t \in DOMAIN cl :
             (cl[t].op = "Vote" /\ cl[t].pc = "locked" /\ cl'[t].pc # "locked") =>
                /\ (/\ rpc = "idle"
                    /\ \E e \in emitted : e.kind = "Finalized" /\ e.ID = cl'[t].arg.id
                    /\ cl'[t].arg.id \notin queueSet)
                      => cl'[t].pc = "push"
                /\ cl'[t].arg.id \in queueSet \cup DOMAIN ctxs
                      => /\ cl'[t].pc = "done"
                         /\ cl'[t].ret.err = ErrVoteAlreadyOngoing
                         /\ queue' = queue
       /\ \A t \in DOMAIN cl :
             (cl[t].pc = "push" /\ cl'[t].pc = "done") =>
                /\ cl'[t].ret.err = Nil
                /\ cl[t].arg.id \in queueSet'
                /\ queue' = Append(queue,
                                   [ID |-> cl[t].arg.id, Type |-> cl[t].arg.typ,
                                    Opinions |-> <<cl[t].arg.opn>>, Rounds |-> 0,
                                    ProportionLiked |-> Zero,
                                    Weights |-> [OwnWeight |-> 0, TotalWeights |-> 0]])
       /\ \A id \in (queueSet \cup DOMAIN ctxs) \ (queueSet' \cup DOMAIN ctxs') :
             /\ rpc = "finalizeOpinions"
             /\ \E e \in emitted' : e.ID = id /\ e.kind \in {"Finalized", "Failed"}]_vars

\* A Round that emitted Finalized for an id has returned, and a Vote for that
\* id has been accepted: its fresh context waits in the queue
C19_Witness ==
    /\ rpc = "idle"
    /\ \E e \in emitted, t \in DOMAIN cl :
          /\ e.kind = "Finalized" /\ e.Ctx.Rounds > 0 /\ Len(e.Ctx.Opinions) > 1
          /\ cl[t].pc = "done" /\ cl[t].op = "Vote"
          /\ cl[t].arg.id = e.ID /\ cl[t].ret.err = Nil
          /\ \E i \in DOMAIN queue :
                /\ queue[i].ID = e.ID
                /\ queue[i].Rounds = 0
                /\ Len(queue[i].Opinions) = 1
                /\ queue[i].ProportionLiked = Zero

(* C20: what a handler retained from an event payload is a value copy taken  *)
(* at emission time and is not changed by later engine steps.  The contexts  *)
(* carried by Finalized and Failed are values; the active-contexts           *)
(* collection of a delivered RoundExecuted, when it is the registry f.ctxs   *)
(* itself, shows whatever the registry holds, so the registry may not change *)
(* once the event has been delivered.                                        *)
C20_PayloadIsValueCopy ==
    [][(stats.executed /\ stats.ActiveVoteContexts = "f.ctxs") => ctxs' = ctxs]_vars

(* C21: in every reachable state the proportionLiked of every queued or      *)
(* active context is a defined number between 0 and 1, whatever the givers   *)
(* answer and also when MinOpinionsReceived is 0: it is never the result of  *)
(* a division by a votedCount of 0.                                          *)
C21_ProportionLikedDefined ==
    /\ \A id \in DOMAIN ctxs :
          /\ ~IsNaN(ctxs[id].ProportionLiked)
          /\ RGeq(ctxs[id].ProportionLiked, Zero)
          /\ RGeq(One, ctxs[id].ProportionLiked)
    /\ \A i \in DOMAIN queue :
          /\ ~IsNaN(queue[i].ProportionLiked)
          /\ RGeq(queue[i].ProportionLiked, Zero)
          /\ RGeq(One, queue[i].ProportionLiked)

(* C22: the enqueue pass that opens a Round promotes every queued context:   *)
(* it leaves the queue and the queue-set empty and puts each drained context *)
(* into the registry as it was queued, leaving the other active contexts     *)
(* alone.  A context promoted in a Round (rounds 0) gets no opinion in that  *)
(* Round's formation pass, is ticked to rounds 1, and is among the ids for   *)
(* which givers are asked in that Round; outside the promotion Round every   *)
(* active context has rounds >= 1.  A queued context keeps rounds 0 and its  *)
(* single opinion, the queue only grows at its back until the next enqueue   *)
(* pass, and a queued id is not among the ids givers are asked about.        *)
C22_PromotionByEnqueue ==
    [][/\ (rpc = "idle" /\ rpc' # rpc) =>
             /\ queue' = <<>>
             /\ queueSet' = {}
             /\ DOMAIN ctxs' = DOMAIN ctxs \cup {queue[i].ID : i \in DOMAIN queue}
             /\ \A i \in DOMAIN queue : ctxs'[queue[i].ID] = queue[i]
             /\ \A id \in DOMAIN ctxs : ctxs'[id] = ctxs[id]
       /\ (rpc = "formOpinions" /\ rpc' # rpc) =>
             \A id \in DOMAIN ctxs : ctxs[id].Rounds = 0 => ctxs'[id] = ctxs[id]
       /\ (rpc = "tick" /\ rpc' # rpc) =>
             \A id \in DOMAIN ctxs :
                ctxs[id].Rounds = 0 =>
                   /\ id \in DOMAIN ctxs'
                   /\ ctxs'[id].Rounds = 1
                   /\ ctxs'[id].Opinions = ctxs[id].Opinions
       /\ (rpc = "queryOpinions" /\ rpc' # rpc /\ qtrace'.recorded) =>
             LET asked == {qtrace'.conflictIDs[i] : i \in DOMAIN qtrace'.conflictIDs}
                          \cup {qtrace'.timestampIDs[i] : i \in DOMAIN qtrace'.timestampIDs}
             IN  /\ \A id \in DOMAIN ctxs : ctxs[id].Rounds = 1 => id \in asked
                 /\ \A i \in DOMAIN queue : queue[i].ID \notin asked
       /\ rpc \in {"idle", "queryOpinions"} =>
             \A id \in DOMAIN ctxs : ctxs[id].Rounds >= 1
       /\ \A i \in DOMAIN queue :
             queue[i].Rounds = 0 /\ Len(queue[i].Opinions) = 1
       /\ rpc # "idle" =>
             /\ Len(queue') >= Len(queue)
             /\ SubSeq(queue', 1, Len(queue)) = queue]_vars

\* In a Round that ran the formation pass, a context promoted by its enqueue
\* pass has been ticked to rounds 1 with its single opinion and is about to be
\* queried, while a context submitted after the enqueue pass waits in the queue
C22_Witness ==
    /\ rpc = "queryOpinions"
    /\ lastRoundCompletedSuccessfully
    /\ queue # <<>>
    /\ \E id \in DOMAIN ctxs :
          ctxs[id].Rounds = 1 /\ Len(ctxs[id].Opinions) = 1

(* C23: after the fan-out of a query, the tally of each queried id holds,    *)
(* for each giver whose Query returned no error and the required number of   *)
(* opinions, exactly selectedCount copies of the opinion that giver returned *)
(* for that id (the k-th conflict id at position k of the response, the k-th *)
(* timestamp id at position len(conflictIDs) + k), and nothing from the      *)
(* other givers, who are also absent from the stats; this fixes the tally    *)
(* whatever the order in which the giver tasks complete.                     *)
C23_TallyOfValidResponses ==
    (qtrace.recorded /\ stats.executed) =>
        LET sel == qtrace.selected
            nc == Len(qtrace.conflictIDs)
            need == nc + Len(qtrace.timestampIDs)
            valid(g) == qtrace.resp[g].err = Nil /\ Len(qtrace.resp[g].opinions) = need
            returned(g, id) ==
                IF \E k \in DOMAIN qtrace.conflictIDs : qtrace.conflictIDs[k] = id
                THEN qtrace.resp[g].opinions[
                         CHOOSE k \in DOMAIN qtrace.conflictIDs : qtrace.conflictIDs[k] = id]
                ELSE qtrace.resp[g].opinions[
                         nc + (CHOOSE k \in DOMAIN qtrace.timestampIDs :
                                   qtrace.timestampIDs[k] = id)]
        IN  /\ \A id \in DOMAIN qtrace.voteMap, o \in Opinions :
                  Cardinality({j \in DOMAIN qtrace.voteMap[id] : qtrace.voteMap[id][j] = o})
                    = Cardinality({p \in (DOMAIN sel) \X (1..paras.MaxQuerySampleSize) :
                                      /\ valid(p[1])
                                      /\ returned(p[1], id) = o
                                      /\ p[2] <= sel[p[1]]})
            /\ {stats.QueriedOpinions[i].OpinionGiverID : i \in DOMAIN stats.QueriedOpinions}
                  = {g \in DOMAIN sel : valid(g)}

(* C24: every step that changes the registry or a context in it runs while   *)
(* f.ctxsMu is held exclusively, so no thread holds the lock shared (inside  *)
(* IntermediateOpinion or Vote) during a step that writes the registry.      *)
C24_MutationUnderExclusiveLock ==
    [][ctxs' # ctxs => ctxsMuR = {}]_vars

(* C25: a thread that has taken one mutex and waits for the other holds      *)
(* f.queueMu and waits for f.ctxsMu (the middle of Vote, the middle of       *)
(* enqueue), so the holder of f.queueMu is in Vote or is the Round thread in *)
(* enqueue, and every thread holding f.ctxsMu can run to its release without *)
(* taking another mutex.  Consequently Vote, IntermediateOpinion and Round   *)
(* never deadlock: whenever some call is in progress, one of the calls in    *)
(* progress can take its next step.                                          *)
C25_LockOrderNoDeadlock ==
    /\ \A t \in DOMAIN cl :
          /\ cl[t].pc = "Vote.second" => (queueMu = t /\ t \notin ctxsMuR)
          /\ t \in ctxsMuR => cl[t].pc \in {"locked", "push"}
          /\ queueMu = t => (cl[t].op = "Vote"
                              /\ cl[t].pc \in {"Vote.second", "locked", "push"})
    /\ queueMu = RoundThread <=> rpc = "enqueue.ctxsMu"
    /\ ((\E t \in DOMAIN cl : cl[t].pc \notin {"idle", "done"}) \/ rpc # "idle")
          => \/ \E t \in DOMAIN cl : cl[t].pc \in {"locked", "push"}
             \/ \E t \in DOMAIN cl :
                   /\ cl[t].pc = "Vote.second"
                   /\ IF queueMu = t THEN ~writerWaiting ELSE queueMu = NoThread
             \/ rpc \in {"enqueue.ctxsMu", "finalizeOpinions", "tick"} /\ ctxsMuR = {}
             \/ rpc \in {"formOpinions", "queryOpinions"}

\* A Vote holds f.queueMu and waits for f.ctxsMu, which the Round driver
\* waits to take exclusively while another client holds it shared
C25_Witness ==
    \E t1, t2 \in DOMAIN cl :
        /\ cl[t1].pc = "Vote.second" /\ queueMu = t1
        /\ cl[t2].pc = "locked" /\ cl[t2].op = "IntermediateOpinion" /\ t2 \in ctxsMuR
        /\ rpc = "finalizeOpinions"

(* C26: the opinion appended to a context by a formation pass is decided     *)
(* against a threshold drawn between bounds that depend on the context's     *)
(* rounds counter and the parameters only: (EndingRoundsFixedThreshold,      *)
(* EndingRoundsFixedThreshold) if rounds > cooldown + finalization + fixed,  *)
(* else the FirstRound bounds if rounds = cooldown + 1, else the Subsequent  *)
(* bounds; the fixed rule wins when both it and the first-round rule apply.  *)
C26_ThresholdBounds ==
    [][(rpc = "formOpinions" /\ rpc' # rpc) =>
          \A id \in DOMAIN ctxs :
             ctxs[id].Rounds > 0 =>
                LET c == ctxs[id]
                    fixedRule == c.Rounds > paras.TotalRoundsCoolingOffPeriod
                                              + paras.TotalRoundsFinalization
                                              + paras.TotalRoundsFixedThreshold
                    firstRule == c.Rounds = paras.TotalRoundsCoolingOffPeriod + 1
                    lower == IF fixedRule THEN paras.EndingRoundsFixedThreshold
                             ELSE IF firstRule THEN paras.FirstRoundLowerBoundThreshold
                             ELSE paras.SubsequentRoundsLowerBoundThreshold
                    upper == IF fixedRule THEN paras.EndingRoundsFixedThreshold
                             ELSE IF firstRule THEN paras.FirstRoundUpperBoundThreshold
                             ELSE paras.SubsequentRoundsUpperBoundThreshold
                    T == RAdd(lower, RMul(rand, RSub(upper, lower)))
                IN  ctxs'[id].Opinions
                       = Append(c.Opinions,
                                IF RGeq(biasTowardsOwnOpinion(c), T) THEN Like ELSE Dislike)]_vars

\* A formation pass has just decided Dislike for a context in its first round
\* to which the fixed rule applies as well: its eta is below the fixed
\* threshold, while the first-round threshold 0 would have given Like
C26_Witness ==
    /\ rpc = "finalizeOpinions"
    /\ \E id \in DOMAIN ctxs :
          /\ ctxs[id].Rounds = paras.TotalRoundsCoolingOffPeriod + 1
          /\ ctxs[id].Rounds > paras.TotalRoundsCoolingOffPeriod
                                 + paras.TotalRoundsFinalization
                                 + paras.TotalRoundsFixedThreshold
          /\ Len(ctxs[id].Opinions) = 2
          /\ ctxs[id].Opinions[2] = Dislike
          /\ RGeq(biasTowardsOwnOpinion([ctxs[id] EXCEPT !.Opinions = <<@[1]>>]),
                  paras.FirstRoundUpperBoundThreshold)

(* C27: a formation pass appends exactly one opinion to each context that is *)
(* not new and changes nothing else of it: Like if eta >= T and Dislike      *)
(* otherwise, never Unknown, where T is the threshold of the context's round *)
(* and eta is proportionLiked when the own weight is 0, the total weight is  *)
(* 0 or the last opinion is Unknown, and otherwise                           *)
(* (own/total) * s + (1 - own/total) * proportionLiked with s = 1 for a last *)
(* opinion Like and s = 0 for Dislike.  New contexts and the set of active   *)
(* contexts are left as they are.                                            *)
C27_FormationDecision ==
    [][(rpc = "formOpinions" /\ rpc' # rpc) =>
          /\ DOMAIN ctxs' = DOMAIN ctxs
          /\ \A id \in DOMAIN ctxs :
                LET c == ctxs[id]
                    own == c.Weights.OwnWeight
                    total == c.Weights.TotalWeights
                    last == c.Opinions[Len(c.Opinions)]
                    s == IF last = Like THEN One ELSE Zero
                    eta == IF own = 0 \/ total = 0 \/ last = Unknown
                           THEN c.ProportionLiked
                           ELSE RAdd(RMul(Rat(own, total), s),
                                     RMul(RSub(One, Rat(own, total)), c.ProportionLiked))
                    T == RandUniformThreshold(rand, setThreshold(c)[1], setThreshold(c)[2])
                IN  IF c.Rounds = 0
                    THEN ctxs'[id] = c
                    ELSE /\ ctxs'[id] = [c EXCEPT !.Opinions =
                                            Append(@, IF RGeq(eta, T) THEN Like ELSE Dislike)]
                         /\ ctxs'[id].Opinions[Len(ctxs'[id].Opinions)] # Unknown
                         /\ SubSeq(ctxs'[id].Opinions, 1, Len(c.Opinions)) = c.Opinions]_vars

\* A formation pass has decided Like for a context whose proportionLiked is 0,
\* below every threshold of its round: the own weight, half of the total, and
\* the own last opinion Like lifted eta to 1/2
C27_Witness ==
    /\ rpc = "finalizeOpinions"
    /\ rand = Zero
    /\ \E id \in DOMAIN ctxs :
          /\ ctxs[id].Rounds = 2
          /\ Len(ctxs[id].Opinions) = 3
          /\ ctxs[id].Opinions[2] = Like
          /\ ctxs[id].Opinions[3] = Like
          /\ ctxs[id].ProportionLiked = Zero
          /\ ctxs[id].Weights = [OwnWeight |-> 4, TotalWeights |-> 8]

(* C28: when the givers' mana is non-negative and sums to more than          *)
(* toleranceTotalMana, the sampling of a query makes at most                 *)
(* MaxQuerySampleSize draws and stops before that only when QuerySampleSize  *)
(* distinct givers are selected: at most QuerySampleSize distinct givers are *)
(* returned, each with a count >= 1, the counts sum to the number of draws   *)
(* made, and the total mana reported is the sum of the givers' mana.         *)
C28_WeightedSampling ==
    (qtrace.recorded
       /\ manaSum(qtrace.givers, Len(qtrace.givers)) > toleranceTotalMana
       /\ \A i \in DOMAIN qtrace.givers : qtrace.givers[i].mana >= 0)
    => LET sel == qtrace.selected
           most == Max2(paras.MaxQuerySampleSize, paras.QuerySampleSize)
       IN  /\ qtrace.drawn <= paras.MaxQuerySampleSize
           /\ qtrace.drawn < paras.MaxQuerySampleSize
                 => Cardinality(DOMAIN sel) = paras.QuerySampleSize
           /\ Cardinality(DOMAIN sel) <= paras.QuerySampleSize
           /\ \A g \in DOMAIN sel : sel[g] >= 1 /\ sel[g] <= most
           /\ Cardinality({p \in (DOMAIN sel) \X (1..most) : p[2] <= sel[p[1]]})
                 = qtrace.drawn
           /\ qtrace.totalMana - qtrace.ownMana
                 = manaSum(qtrace.givers, Len(qtrace.givers))

\* A weighted sampling stopped after two of its three draws, having selected
\* two distinct givers
C28_Witness ==
    /\ qtrace.recorded
    /\ manaSum(qtrace.givers, Len(qtrace.givers)) > toleranceTotalMana
    /\ paras.MaxQuerySampleSize = 3
    /\ qtrace.drawn = 2
    /\ Cardinality(DOMAIN qtrace.selected) = 2

(* C29: when the givers' mana sums to toleranceTotalMana or less in absolute *)
(* value, the sampling is uniform: it makes exactly QuerySampleSize draws    *)
(* whatever MaxQuerySampleSize is, so the counts sum to QuerySampleSize, and *)
(* the total mana it reports is exactly 0, not the sum of the givers' mana.  *)
C29_UniformFallback ==
    (qtrace.recorded
       /\ Abs(manaSum(qtrace.givers, Len(qtrace.givers))) <= toleranceTotalMana)
    => LET sel == qtrace.selected
       IN  /\ qtrace.drawn = paras.QuerySampleSize
           /\ \A g \in DOMAIN sel : sel[g] >= 1 /\ sel[g] <= paras.QuerySampleSize
           /\ Cardinality({p \in (DOMAIN sel) \X (1..paras.QuerySampleSize) :
                              p[2] <= sel[p[1]]})
                 = paras.QuerySampleSize
           /\ qtrace.totalMana - qtrace.ownMana = 0

\* A uniform sampling over givers whose mana sums to 0.001 made two draws
\* although MaxQuerySampleSize is 1, and selected the giver without mana twice
C29_Witness ==
    /\ qtrace.recorded
    /\ manaSum(qtrace.givers, Len(qtrace.givers)) = 1
    /\ paras.MaxQuerySampleSize = 1
    /\ paras.QuerySampleSize = 2
    /\ DOMAIN qtrace.selected = {"g1"}
    /\ qtrace.selected["g1"] = 2
    /\ qtrace.totalMana = 0

(* C30: the handlers of Finalized and Failed run on the Round thread while   *)
(* the finalize pass holds f.ctxsMu exclusively: events are triggered only   *)
(* then, no thread holds the mutex shared meanwhile, no IntermediateOpinion  *)
(* or Vote call of a client returns during a handler invocation, and once a  *)
(* handler has called Vote or IntermediateOpinion on the engine the Round    *)
(* thread stays inside that call for ever.                                   *)
C30_HandlersUnderExclusiveLock ==
    [][/\ (emitted' # emitted /\ emitted' # {}) => rpc = "finalizeOpinions.locked"
       /\ rpc \in InHandlers =>
             /\ ctxsMuR = {} /\ ctxsMuR' = {}
             /\ \A t \in DOMAIN cl : cl'[t].pc = "done" => cl[t].pc = "done"
       /\ rpc \in {"handler.Vote.first", "handler.Vote.second",
                   "handler.IntermediateOpinion"}
             => rpc' \in {"handler.Vote.first", "handler.Vote.second",
                          "handler.IntermediateOpinion"}
       /\ rpc \in {"handler.Vote.second", "handler.IntermediateOpinion"} => rpc' = rpc]_vars

\* The handler of a Finalized event has called Vote: the Round thread holds
\* f.queueMu and waits for f.ctxsMu, which it holds exclusively itself, before
\* the finalized context is removed
C30_Witness ==
    /\ rpc = "handler.Vote.second"
    /\ queueMu = RoundThread
    /\ \E e \in emitted : e.kind = "Finalized"
    /\ \E id \in DOMAIN ctxs :
          IsFinalized(ctxs[id], paras.TotalRoundsCoolingOffPeriod,
                      paras.TotalRoundsFinalization)

\* C31: once a Round has returned nil the success flag stays true, and from
\* then on no context outlives the finalize pass of the
\* (MaxRoundsPerVoteContext+1)-th Round since its promotion. A context is ticked
\* once in every Round since its promotion, so it is past that pass when its
\* rounds exceed MaxRoundsPerVoteContext, or equal it with the finalize pass of
\* the running Round behind it; and at the return of a Round that began with
\* the flag true every registry context has at most MaxRoundsPerVoteContext
\* rounds.
C31_RemovedOnceFlagIsTrue ==
    [][/\ lastRoundCompletedSuccessfully => lastRoundCompletedSuccessfully'
       /\ lastRoundCompletedSuccessfully' =>
             \A id \in DOMAIN ctxs' :
                /\ ctxs'[id].Rounds <= paras.MaxRoundsPerVoteContext
                /\ rpc' = "tick" => ctxs'[id].Rounds < paras.MaxRoundsPerVoteContext
       /\ (rpc = "queryOpinions" /\ rpc' = "idle" /\ lastRoundCompletedSuccessfully) =>
             \A id \in DOMAIN ctxs' :
                ctxs'[id].Rounds <= paras.MaxRoundsPerVoteContext]_vars

(* C32: in weighted mode (the givers' mana is non-negative and sums to more  *)
(* than toleranceTotalMana) no giver without mana is selected, whatever the  *)
(* draws: every key of the map the sampling returned is a giver of the list  *)
(* with mana > 0.                                                            *)
C32_NoSelectionWithoutMana ==
    (qtrace.recorded
       /\ manaSum(qtrace.givers, Len(qtrace.givers)) > toleranceTotalMana
       /\ \A i \in DOMAIN qtrace.givers : qtrace.givers[i].mana >= 0)
    => \A g \in DOMAIN qtrace.selected :
          /\ \E i \in DOMAIN qtrace.givers : qtrace.givers[i].id = g
          /\ \A i \in DOMAIN qtrace.givers :
                qtrace.givers[i].id = g => qtrace.givers[i].mana > 0

\* A weighted sampling over a list whose first giver has no mana drew the
\* smallest number the generator can deliver and selected the second giver
C32_Witness ==
    /\ qtrace.recorded
    /\ qtrace.givers = GiversSomeWithoutMana
    /\ manaSum(qtrace.givers, Len(qtrace.givers)) > toleranceTotalMana
    /\ qtrace.givers[1].mana = 0
    /\ DOMAIN qtrace.selected = {"g2"}

(* C33 as stated: when the last query succeeded with the uniform fallback    *)
(* (the givers' mana sums to toleranceTotalMana or less) and own mana > 0,   *)
(* every context that was queried has the weights (ownMana, ownMana), and    *)
(* the next formation pass, for a threshold T with 0 < T <= 1, appends the   *)
(* context's previous opinion (Like or Dislike) whatever the givers          *)
(* answered.                                                                 *)
C33_FallbackKeepsOwnOpinion ==
    [][(/\ rpc = "formOpinions" /\ rpc' # rpc
        /\ qtrace.recorded
        /\ Abs(manaSum(qtrace.givers, Len(qtrace.givers))) <= toleranceTotalMana
        /\ qtrace.ownMana > 0)
       => \A id \in DOMAIN ctxs \cap DOMAIN qtrace.voteMap :
             LET c == ctxs[id]
                 T == RandUniformThreshold(rand, setThreshold(c)[1], setThreshold(c)[2])
             IN  (/\ LastOpinion(c) \in {Like, Dislike}
                  /\ RGeq(T, Zero) /\ T # Zero /\ RGeq(One, T))
                 => /\ c.Weights = [OwnWeight |-> qtrace.ownMana,
                                    TotalWeights |-> qtrace.ownMana]
                    /\ biasTowardsOwnOpinion(c)
                          = Rat(ConvertOpinionToFloat64(LastOpinion(c)), 1)
                    /\ ctxs'[id].Opinions = Append(c.Opinions, LastOpinion(c))]_vars

(* C33: the same for the contexts whose weights that query stored: those     *)
(* that received at least MinOpinionsReceived opinions other than Unknown,   *)
(* and at least one, so that their proportionLiked is a number.  Such a      *)
(* context has the weights (ownMana, ownMana), eta is 1 when its last        *)
(* opinion is Like and 0 when it is Dislike, and for a threshold T with      *)
(* 0 < T <= 1 the formation pass appends the previous opinion.               *)
C33_FallbackKeepsOwnOpinionWhenStored ==
    [][(/\ rpc = "formOpinions" /\ rpc' # rpc
        /\ qtrace.recorded
        /\ Abs(manaSum(qtrace.givers, Len(qtrace.givers))) <= toleranceTotalMana
        /\ qtrace.ownMana > 0)
       => \A id \in DOMAIN ctxs \cap DOMAIN qtrace.voteMap :
             LET c == ctxs[id]
                 T == RandUniformThreshold(rand, setThreshold(c)[1], setThreshold(c)[2])
             IN  (/\ LastOpinion(c) \in {Like, Dislike}
                  /\ RGeq(T, Zero) /\ T # Zero /\ RGeq(One, T)
                  /\ votedCount(qtrace.voteMap[id]) >= paras.MinOpinionsReceived
                  /\ votedCount(qtrace.voteMap[id]) >= 1)
                 => /\ c.Weights = [OwnWeight |-> qtrace.ownMana,
                                    TotalWeights |-> qtrace.ownMana]
                    /\ biasTowardsOwnOpinion(c)
                          = Rat(ConvertOpinionToFloat64(LastOpinion(c)), 1)
                    /\ ctxs'[id].Opinions = Append(c.Opinions, LastOpinion(c))]_vars

\* After a query with the uniform fallback and own mana 0.004 in which the
\* givers liked the item, a context whose last opinion was Dislike has got
\* Dislike again, with a threshold of 1/2 or less
C33_Witness ==
    /\ rpc = "finalizeOpinions"
    /\ qtrace.recorded
    /\ Abs(manaSum(qtrace.givers, Len(qtrace.givers))) <= toleranceTotalMana
    /\ qtrace.ownMana = 4
    /\ rand = Zero
    /\ \E id \in DOMAIN ctxs \cap DOMAIN qtrace.voteMap :
          /\ likedSum(qtrace.voteMap[id]) >= 1
          /\ ctxs[id].ProportionLiked = One
          /\ ctxs[id].Weights = [OwnWeight |-> 4, TotalWeights |-> 4]
          /\ Len(ctxs[id].Opinions) >= 2
          /\ ctxs[id].Opinions[Len(ctxs[id].Opinions)] = Dislike
          /\ ctxs[id].Opinions[Len(ctxs[id].Opinions) - 1] = Dislike

=============================================================================
